---- MODULE Spec2Model ----
(***************************************************************************)
(* Model of libavfilter/vf_scale_cuda.cu: the Subsample_Bilinear kernel    *)
(* family (conversion templates, VARIANTSET2 instantiations) and the       *)
(* scale_cuda filter that configures and launches them.                    *)
(*                                                                         *)
(*   KernelSpec : one work-item of one instantiated kernel (or one direct  *)
(*                application of a conversion template) on sampled taps.   *)
(*   Spec       : the filter instance: cudascale_config_props,             *)
(*                cudascale_filter_frame, cudascale_uninit.                *)
(*   GeomSpec   : one work-item of the grid of one cuLaunchKernel: its     *)
(*                coordinates, tap positions, dither texel and destination *)
(*                index.                                                   *)
(*   WeightSpec : the filter weight and tap displacement of one axis.      *)
(* and of the MediaCodec NDK adapters and the log forwarder:               *)
(*   LogSpec    : plex_log_callback and PMS_Log on several threads.        *)
(*   DecSpec    : libavcodec/mediacodecndkdec.c, one decoder instance.     *)
(*   EncSpec    : mediacodecndk_encode_frame, one encoder instance.        *)
(*   EncFairSpec: EncSpec with the scheduling assumptions of a drain call. *)
(* float values are modelled as exact rationals.                           *)
(***************************************************************************)
EXTENDS Integers, Sequences, FiniteSets, TLC

VARIABLES
    \* ---- one kernel work-item (Subsample_Bilinear) ----
    kpc,          \* "launched" | "done" | "conv"
    kfunc,        \* the kernel the work-item belongs to
    kinst,        \* template arguments of the conversion that ran
    tap,          \* <<i0, i1, i2, i3>>: the four tex2D results, one pixel each
    ditherVal,    \* local ditherVal of Subsample_Bilinear
    dstVal,       \* the DST pixel written to dst[]
    \* ---- CUDAScaleContext and the filter's environment ----
    hwctx,        \* s->hwctx != NULL
    format,       \* s->format (the "format" option after cudascale_init)
    passthrough,  \* s->passthrough
    in_fmt, out_fmt,        \* s->in_fmt, s->out_fmt
    planes_in, planes_out,  \* s->planes_in[3], s->planes_out[3]
    in_desc, out_desc,      \* s->in_desc, s->out_desc (format described, or "NULL")
    in_planes, out_planes,  \* s->in_planes, s->out_planes
    cu_func_luma, cu_func_chroma_u, cu_func_chroma_v,
    ditherBuffer, ditherTex,  \* s->ditherBuffer, s->ditherTex (0 = none)
    frame_w, frame_h,       \* s->frame->width, s->frame->height
    link_w, link_h,         \* inlink->w, inlink->h
    ctxDepth,     \* depth of the CUDA context stack (cuCtxPushCurrent/PopCurrent)
    nconfig,      \* number of cudascale_config_props calls so far
    lastOp,       \* "none" | "config" | "filter_frame" | "uninit"
    lastRet,      \* return value of the last call
    failedAt,     \* the call at which the last cudascale_config_props failed
    nDitherBuf,   \* successful cuMemAlloc(&s->ditherBuffer) calls of that configuration
    nDitherTex,   \* successful cuTexObjectCreate(&s->ditherTex) calls of it
    cfgOk,        \* the last cudascale_config_props returned 0
    launches,     \* call_resize_kernel calls of the last cudascale_filter_frame
    delivered,    \* the last cudascale_filter_frame reached ff_filter_frame
    \* ---- one launch of call_resize_kernel and one work-item of its grid ----
    gpc,          \* "idle" | "grid" | "launched" | "done"
    glaunch,      \* kernel and arguments of the launch
    ggrid,        \* <<gridDim.x, gridDim.y>> (<<0, 0>> before cuLaunchKernel)
    gitem,        \* blockIdx and threadIdx of the work-item
    gres,         \* what the work-item computed and wrote
    ditherMem,    \* contents of the device buffer behind ditherTex
    \* ---- weight and displacement of one axis ----
    wpc,          \* "start" | "done"
    wdim,         \* <<source size, destination size, centre texel>>
    wres,         \* scale, weight, displacement and texel weights
    \* ---- plex_log_callback / PMS_Log ----
    av_log_level_plex,  \* the global of that name
    logging,      \* per thread: the recursion guard (logging_key / logging)
    cur_line,     \* per thread: the line buffer (allocated?) and strlen of it
    logStack,     \* per thread: the plex_log_callback calls that are inside PMS_Log
    lastLog,      \* the last plex_log_callback call and how it ended
    \* ---- MediaCodecNDKDecoderContext, its AMediaCodec and its frames ----
    dpc,          \* "new" | "open" | "initfailed" | "closed" | "crashed"
    decoder,      \* ctx->decoder: "NULL" or "codec" (the pointer, valid or not)
    decoder_ref,  \* ctx->decoder_ref != NULL
    bsfc,         \* ctx->bsfc != NULL
    eos_reached,  \* ctx->eos_reached
    codec,        \* the AMediaCodec: "none" | "started" | "stopped" | "deleted"
    refCount,     \* reference count of the buffer behind decoder_ref
    nDeleted,     \* AMediaCodec_delete calls on the codec
    afterDelete,  \* codec calls made on the codec after AMediaCodec_delete
    bufs,         \* per output buffer index: owner, wrapping frame, releases
    eosQueued,    \* an end-of-stream input buffer is queued since start/flush
    lastDec,      \* the last decoder call: what it queued and returned
    \* ---- MediaCodecNDKEncoderContext, its AMediaCodec, one encode call ----
    epc,          \* "idle" | "polling" (in the output loop) | "aborted"
    eframe,       \* the frame argument of the current or last call
    saw_output_eos,  \* ctx->saw_output_eos
    new_extradata,   \* ctx->new_extradata != NULL
    eosInputs,    \* end-of-stream input buffers queued to the codec so far
    inputAfterEos,   \* an input buffer was queued after output end-of-stream
    pending,      \* frames queued to the codec and not yet returned as packets
    cfgSent,      \* the codec has returned its codec-config buffer
    fmtSent,      \* the codec has reported its output format change
    encRet,       \* return value of the last finished call
    got_packet,   \* *got_packet of the current or last call
    queuedThis,   \* what the current or last call queued: "frame" | "eos" | "none"
    lastPoll,     \* last AMediaCodec_dequeueOutputBuffer of the call, buffer released?
    pollTick      \* parity of the polls of the current call

kvars == <<kpc, kfunc, kinst, tap, ditherVal, dstVal>>
fvars == <<hwctx, format, passthrough, in_fmt, out_fmt, planes_in, planes_out,
           in_desc, out_desc, in_planes, out_planes,
           cu_func_luma, cu_func_chroma_u, cu_func_chroma_v,
           ditherBuffer, ditherTex, frame_w, frame_h, link_w, link_h,
           ctxDepth, nconfig, lastOp, lastRet, failedAt, nDitherBuf, nDitherTex,
           cfgOk, launches, delivered>>
gvars == <<gpc, glaunch, ggrid, gitem, gres, ditherMem>>
wvars == <<wpc, wdim, wres>>
lvars == <<av_log_level_plex, logging, cur_line, logStack, lastLog>>
dvars == <<dpc, decoder, decoder_ref, bsfc, eos_reached, codec, refCount,
           nDeleted, afterDelete, bufs, eosQueued, lastDec>>
evars == <<epc, eframe, saw_output_eos, new_extradata, eosInputs, inputAfterEos,
           pending, cfgSent, fmtSent, encRet, got_packet, queuedThis, lastPoll,
           pollTick>>
cvars == <<lvars, dvars, evars>>
vars == <<kvars, fvars, gvars, wvars, cvars>>

(***************************************************************************)
(* Bounds of the model.                                                    *)
(***************************************************************************)
\* Sample values tried are 0..EdgeSpan, the top EdgeSpan+1 values of the
\* source type, and 10.
EdgeSpan == 1
\* Number of cudascale_config_props calls on one filter instance.
MaxConfigs == 2
\* Work-items of a frame's launches compared are those with xo, yo < ItemSpan.
ItemSpan == 2
\* Source and destination sizes of an axis are 1..MaxDim.
MaxDim == 12
\* Side of the dither matrix in the model (ff_fruit_dither_size; its header
\* is not part of the sources).
DitherSize == 4

(***************************************************************************)
(* Integer helpers.                                                        *)
(***************************************************************************)
Abs(x) == IF x < 0 THEN -x ELSE x

Pow2(n) == 2 ^ n

\* (unsigned) arithmetic: reduction modulo 2^32.
U32(v) == LET hi == (v \div 65536) \div 65536
          IN  IF hi = 0 THEN v ELSE v - hi * 65536 * 65536

\* the cast (dstbase)(val): keep the low dstBits bits.
Trunc(val, dstBits) == val % Pow2(dstBits)

MaxSample(bits) == Pow2(bits) - 1

(***************************************************************************)
(* SHIFTDOWN / SHIFTUP (lines 26-27).                                      *)
(***************************************************************************)
ShiftDownWide(val, shift) == val \div Pow2(Abs(2 + shift))

\* SHIFTUP shifting by -shift instead of -shift - 2
ShiftUpWide_NoMinus2(val, shift) == U32(val * Pow2(Abs(-shift)))

ShiftUpWide(val, shift) == U32(val * Pow2(Abs(-shift - 2)))

SHIFTDOWN(val, shift, dstBits) == Trunc(ShiftDownWide(val, shift), dstBits)

SHIFTUP(val, shift, dstBits) == Trunc(ShiftUpWide(val, shift), dstBits)

\* "if (shift > -2) return SHIFTDOWN(ret); else return SHIFTUP(ret);"
ShiftConv(val, shift, dstBits) ==
    IF shift > -2 THEN SHIFTDOWN(val, shift, dstBits) ELSE SHIFTUP(val, shift, dstBits)

(***************************************************************************)
(* The conversion templates (lines 29-124).  Pixels are tuples of          *)
(* channels <<x, y, z, w>>; srcBits = sizeof(SRC) * 8.                     *)
(***************************************************************************)
\* (1 + d) >> (sizeof(SRC) * 8 - dither + 3)
DitherBias(srcBits, dither, d) == (1 + d) \div Pow2(srcBits - dither + 3)

\* unsigned ret = i1 + i2 + i3 + i4 + ((1 + d) >> ...)
Acc_d(srcBits, dither, a, b, c, e, d) ==
    U32(a + b + c + e + DitherBias(srcBits, dither, d))

\* Acc without the rounding bias
Acc_NoBias(a, b, c, e) == U32(a + b + c + e)

\* unsigned ret = i1 + i2 + i3 + i4 + 2
Acc(a, b, c, e) == U32(a + b + c + e + 2)

add_conv_shift1_d(srcBits, dstBits, shift, dither, i1, i2, i3, i4, d) ==
    <<ShiftConv(Acc_d(srcBits, dither, i1[1], i2[1], i3[1], i4[1], d), shift, dstBits)>>

add_conv_shift1(srcBits, dstBits, shift, dither, i1, i2, i3, i4, d) ==
    <<ShiftConv(Acc(i1[1], i2[1], i3[1], i4[1]), shift, dstBits)>>

add_conv_shift2(srcBits, dstBits, shift, dither, i1, i2, i3, i4, d) ==
    <<ShiftConv(Acc(i1[1], i2[1], i3[1], i4[1]), shift, dstBits),
      ShiftConv(Acc(i1[2], i2[2], i3[2], i4[2]), shift, dstBits)>>

add_conv_shift2_x(srcBits, dstBits, shift, dither, i1, i2, i3, i4, d) ==
    add_conv_shift1(32, dstBits, shift, dither,
                    <<i1[1]>>, <<i2[1]>>, <<i3[1]>>, <<i4[1]>>, d)

add_conv_shift2_y(srcBits, dstBits, shift, dither, i1, i2, i3, i4, d) ==
    add_conv_shift1(32, dstBits, shift, dither,
                    <<i1[2]>>, <<i2[2]>>, <<i3[2]>>, <<i4[2]>>, d)

add_conv_shift3(srcBits, dstBits, shift, dither, i1, i2, i3, i4, d) ==
    <<ShiftConv(Acc(i1[1], i2[1], i3[1], i4[1]), shift, dstBits),
      ShiftConv(Acc(i1[2], i2[2], i3[2], i4[2]), shift, dstBits),
      ShiftConv(Acc(i1[3], i2[3], i3[3], i4[3]), shift, dstBits)>>

add_conv_shift4(srcBits, dstBits, shift, dither, i1, i2, i3, i4, d) ==
    <<ShiftConv(Acc(i1[1], i2[1], i3[1], i4[1]), shift, dstBits),
      ShiftConv(Acc(i1[2], i2[2], i3[2], i4[2]), shift, dstBits),
      ShiftConv(Acc(i1[3], i2[3], i3[3], i4[3]), shift, dstBits),
      ShiftConv(Acc(i1[4], i2[4], i3[4], i4[4]), shift, dstBits)>>

\* conv<SRC, DST, shift, dither>()(i0, i1, i2, i3, ditherVal)
Conv(inst, t, d) ==
    CASE inst.conv = "add_conv_shift1_d" ->
           add_conv_shift1_d(inst.srcBits, inst.dstBits, inst.shift, inst.dither,
                             t[1], t[2], t[3], t[4], d)
      [] inst.conv = "add_conv_shift1" ->
           add_conv_shift1(inst.srcBits, inst.dstBits, inst.shift, inst.dither,
                           t[1], t[2], t[3], t[4], d)
      [] inst.conv = "add_conv_shift2" ->
           add_conv_shift2(inst.srcBits, inst.dstBits, inst.shift, inst.dither,
                           t[1], t[2], t[3], t[4], d)
      [] inst.conv = "add_conv_shift2_x" ->
           add_conv_shift2_x(inst.srcBits, inst.dstBits, inst.shift, inst.dither,
                             t[1], t[2], t[3], t[4], d)
      [] inst.conv = "add_conv_shift2_y" ->
           add_conv_shift2_y(inst.srcBits, inst.dstBits, inst.shift, inst.dither,
                             t[1], t[2], t[3], t[4], d)
      [] inst.conv = "add_conv_shift3" ->
           add_conv_shift3(inst.srcBits, inst.dstBits, inst.shift, inst.dither,
                           t[1], t[2], t[3], t[4], d)
      [] inst.conv = "add_conv_shift4" ->
           add_conv_shift4(inst.srcBits, inst.dstBits, inst.shift, inst.dither,
                           t[1], t[2], t[3], t[4], d)

(***************************************************************************)
(* The instantiated kernels (VARIANT / VARIANTSET2 / VARIANTSET,           *)
(* lines 162-191).  A kernel Subsample_Bilinear_<set><sfx> is the record   *)
(* [set, sfx].                                                             *)
(***************************************************************************)
VariantSets == {"8_8", "16_16", "8_16", "16_8"}

VariantSuffixes == {"", "_c", "_p2", "_2", "_2_u", "_2_v", "_4"}

Variants == [set : VariantSets, sfx : VariantSuffixes]

NullFunc == [set |-> "NULL", sfx |-> "NULL"]

\* SRCSIZE and DSTSIZE of VARIANTSET(SRC, DST, SRCSIZE, DSTSIZE)
SetSrcBits(set) == IF set \in {"8_8", "8_16"} THEN 8 ELSE 16

SetDstBits(set) == IF set \in {"8_8", "16_8"} THEN 8 ELSE 16

\* SHIFT = (SRCSIZE - DSTSIZE)
SetShift(set) == SetSrcBits(set) - SetDstBits(set)

\* the CONV argument of each VARIANT line
VariantConv(sfx) ==
    CASE sfx = ""     -> "add_conv_shift1_d"
      [] sfx = "_c"   -> "add_conv_shift1"
      [] sfx = "_p2"  -> "add_conv_shift1"
      [] sfx = "_2"   -> "add_conv_shift2"
      [] sfx = "_2_u" -> "add_conv_shift2_x"
      [] sfx = "_2_v" -> "add_conv_shift2_y"
      [] sfx = "_4"   -> "add_conv_shift4"

\* the PITCH argument
VariantPitch(sfx) == IF sfx = "_p2" THEN 2 ELSE 1

\* VariantDither without the sizeof(DST) < sizeof(SRC) test
VariantDither_NoTest(srcBits, dstBits, sfx) ==
    IF sfx = "" THEN dstBits \div 8 ELSE 0

\* VariantDither giving the destination width in bits instead of bytes
VariantDither_Bits(srcBits, dstBits, sfx) ==
    IF sfx = ""
    THEN (IF dstBits \div 8 < srcBits \div 8 THEN dstBits ELSE 0)
    ELSE 0

\* the DITHER argument: (sizeof(DST) < sizeof(SRC)) ? sizeof(DST) : 0 for NAME,
\* 0 for every other variant
VariantDither(srcBits, dstBits, sfx) ==
    IF sfx = ""
    THEN (IF dstBits \div 8 < srcBits \div 8 THEN dstBits \div 8 ELSE 0)
    ELSE 0

\* number of channels of the SRC pixel type (SRC, SRC ## 2, SRC ## 4)
VariantSrcChannels(sfx) ==
    CASE sfx \in {"", "_c", "_p2"}      -> 1
      [] sfx \in {"_2", "_2_u", "_2_v"} -> 2
      [] sfx = "_4"                     -> 4

\* number of channels of the DST pixel type (DST, DST ## 2, DST ## 4)
VariantDstChannels(sfx) ==
    CASE sfx = "_2" -> 2
      [] sfx = "_4" -> 4
      [] OTHER      -> 1

\* sizeof(DST) of a kernel, in bytes
SizeofDST(f) == (SetDstBits(f.set) \div 8) * VariantDstChannels(f.sfx)

\* template arguments <SRC, DST, conv, pitch, shift, dither> of a kernel
Instantiation(f) ==
    [conv    |-> VariantConv(f.sfx),
     srcBits |-> SetSrcBits(f.set),
     dstBits |-> SetDstBits(f.set),
     shift   |-> SetShift(f.set),
     pitch   |-> VariantPitch(f.sfx),
     dither  |-> VariantDither(SetSrcBits(f.set), SetDstBits(f.set), f.sfx),
     nsrc    |-> VariantSrcChannels(f.sfx)]

NoInst == [conv |-> "none", srcBits |-> 0, dstBits |-> 0, shift |-> 0,
           pitch |-> 0, dither |-> 0, nsrc |-> 0]

(***************************************************************************)
(* Inputs of a work-item: what the texture reads can return.               *)
(***************************************************************************)
Samples(bits) ==
    (0 .. EdgeSpan) \cup {10} \cup ((MaxSample(bits) - EdgeSpan) .. MaxSample(bits))

\* an n-channel texel whose first channel is v; the other channels hold
\* other in-range values so that no two channels agree in general
Pixel(v, n, bits) ==
    SubSeq(<<v,
             MaxSample(bits) - v,
             (v + 10) % Pow2(bits),
             (3 * v + 1) % Pow2(bits)>>, 1, n)

\* entries of the 16-bit dither matrix (res_desc of cudascale_setup_dither:
\* CU_AD_FORMAT_UNSIGNED_INT16)
DitherTexels == {0, 2047, 8191, 32767, 65535}

KernelInit ==
    /\ kpc = "launched"
    /\ kfunc \in Variants \cup {NullFunc}
    /\ kinst = NoInst
    /\ tap = <<>>
    /\ ditherVal = 0
    /\ dstVal = <<>>

(***************************************************************************)
(* Subsample_Bilinear (lines 126-158), the body executed by a work-item    *)
(* inside the destination: four tex2D taps, the dither read, the           *)
(* conversion, the store.                                                  *)
(***************************************************************************)
\* ushort ditherVal = dither ? tex2D<ushort>(ditherTex, xo, yo) : 0;
ReadDither(dither, texel) == IF dither # 0 THEN texel ELSE 0

\* the texels the dither read can see: the texture is read only if dither != 0
DitherReads(dither) == IF dither # 0 THEN DitherTexels ELSE {0}

Subsample_Bilinear ==
    /\ kpc = "launched"
    /\ kfunc \in Variants
    /\ LET inst == Instantiation(kfunc) IN
       \E v \in [1..4 -> Samples(inst.srcBits)], texel \in DitherReads(inst.dither) :
         LET t == [k \in 1..4 |-> Pixel(v[k], inst.nsrc, inst.srcBits)]
             dv == ReadDither(inst.dither, texel)
         IN  /\ tap' = t
             /\ ditherVal' = dv
             /\ dstVal' = Conv(inst, t, dv)
             /\ kinst' = inst
    /\ kpc' = "done"
    /\ UNCHANGED <<kfunc, fvars, gvars, wvars, cvars>>

(***************************************************************************)
(* add_conv_shift3 is defined but VARIANTSET2 instantiates no kernel with  *)
(* it; this action applies the template directly, with the <SRC, DST,      *)
(* shift> of each VARIANTSET line and dither 0, to 3-channel texels.       *)
(* It starts from the initial state in which no kernel is launched.        *)
(***************************************************************************)
ApplyConv3 ==
    /\ kpc = "launched"
    /\ kfunc = NullFunc
    /\ \E set \in VariantSets, texel \in DitherTexels :
         LET inst == [conv    |-> "add_conv_shift3",
                      srcBits |-> SetSrcBits(set),
                      dstBits |-> SetDstBits(set),
                      shift   |-> SetShift(set),
                      pitch   |-> 1,
                      dither  |-> 0,
                      nsrc    |-> 3]
         IN  \E v \in [1..4 -> Samples(inst.srcBits)] :
               LET t == [k \in 1..4 |-> Pixel(v[k], 3, inst.srcBits)]
               IN  /\ tap' = t
                   /\ ditherVal' = texel
                   /\ dstVal' = Conv(inst, t, texel)
                   /\ kinst' = inst
    /\ kpc' = "conv"
    /\ UNCHANGED <<kfunc, fvars, gvars, wvars, cvars>>

KernelNext == Subsample_Bilinear \/ ApplyConv3

(***************************************************************************)
(* Pixel formats.  supported_formats (lines 240-246) and the fields of     *)
(* their AVPixFmtDescriptor that the filter reads.                         *)
(***************************************************************************)
supported_formats == {"yuv420p", "nv12", "yuv444p", "p010", "p016"}

\* a format outside supported_formats that a link or the option can carry
OtherFormats == {"yuv422p"}

AllFormats == supported_formats \cup OtherFormats

\* desc->comp[0].depth (all components of these formats have the same depth)
Depth(fmt) ==
    CASE fmt \in {"yuv420p", "nv12", "yuv444p", "yuv422p"} -> 8
      [] fmt = "p010" -> 10
      [] fmt = "p016" -> 16

\* desc->comp[i].plane, i = 0..2 (nb_components is 3 for every format here)
CompPlane(fmt, i) ==
    IF fmt \in {"nv12", "p010", "p016"}
    THEN (IF i = 0 THEN 0 ELSE 1)
    ELSE i

\* desc->comp[i].offset in bytes, i = 0..2
CompOffset(fmt, i) ==
    IF i = 2 /\ fmt \in {"nv12", "p010", "p016"}
    THEN (IF fmt = "nv12" THEN 1 ELSE 2)
    ELSE 0

\* desc->log2_chroma_w, desc->log2_chroma_h
Log2ChromaW(fmt) == IF fmt = "yuv444p" THEN 0 ELSE 1

Log2ChromaH(fmt) == IF fmt \in {"yuv444p", "yuv422p"} THEN 0 ELSE 1

Max2(a, b) == IF a > b THEN a ELSE b

\* for (i ...) s->in_planes = FFMAX(s->in_planes, desc->comp[i].plane + 1);
CountPlanes(old, fmt) ==
    Max2(Max2(Max2(old, CompPlane(fmt, 0) + 1), CompPlane(fmt, 1) + 1),
         CompPlane(fmt, 2) + 1)

\* variant of format_is_supported that accepts every format
format_is_supported_Any(fmt) == TRUE

\* format_is_supported (lines 437-445)
format_is_supported(fmt) == fmt \in supported_formats

\* #define BITS(n) ((n + 7) & ~7)
BITS(n) == ((n + 7) \div 8) * 8

\* #define DEPTH_BYTES(depth) (((depth) + 7) / 8)
DEPTH_BYTES(depth) == (depth + 7) \div 8

\* AV_CEIL_RSHIFT(a, b) = -((-(a)) >> (b))
AV_CEIL_RSHIFT(a, b) == (a + Pow2(b) - 1) \div Pow2(b)

\* a >> b on a non-negative int
Rshift(a, b) == a \div Pow2(b)

(***************************************************************************)
(* Return codes.                                                           *)
(***************************************************************************)
ENOMEM == 12
EINVAL == 22
ENOSYS == 38
AVERROR(e) == -e
\* FFERRTAG('B','U','G','!') and FFERRTAG('E','X','T',' ')
AVERROR_BUG == -558323010
AVERROR_EXTERNAL == -542398533

(***************************************************************************)
(* Initial state of a filter instance: priv is zero-filled, then           *)
(* cudascale_init (lines 322-345) sets s->format from the format option.   *)
(* Pixel format 0 is AV_PIX_FMT_YUV420P.                                   *)
(***************************************************************************)
NoPlane == [width |-> 0, height |-> 0]

FilterInit ==
    /\ hwctx = FALSE
    /\ format \in {"NONE"} \cup AllFormats
    /\ passthrough = 0
    /\ in_fmt = "yuv420p"
    /\ out_fmt = "yuv420p"
    /\ planes_in = [i \in 0..2 |-> NoPlane]
    /\ planes_out = [i \in 0..2 |-> NoPlane]
    /\ in_desc = "NULL"
    /\ out_desc = "NULL"
    /\ in_planes = 0
    /\ out_planes = 0
    /\ cu_func_luma = NullFunc
    /\ cu_func_chroma_u = NullFunc
    /\ cu_func_chroma_v = NullFunc
    /\ ditherBuffer = 0
    /\ ditherTex = 0
    /\ frame_w = 0
    /\ frame_h = 0
    /\ link_w = 0
    /\ link_h = 0
    /\ ctxDepth = 0
    /\ nconfig = 0
    /\ lastOp = "none"
    /\ lastRet = 0
    /\ failedAt = "none"
    /\ nDitherBuf = 0
    /\ nDitherTex = 0
    /\ cfgOk = FALSE
    /\ launches = <<>>
    /\ delivered = FALSE

\* ---- plex_log_callback and PMS_Log: threads, levels, line buffer ----
MaxNest == 2
Threads == {"main", "worker"}
AV_LOG_QUIET == -8
LOG_LINE_SIZE == 1024
\* AV_LOG_QUIET, AV_LOG_ERROR, AV_LOG_INFO
LogLevels == {AV_LOG_QUIET, 16, 32}
\* lengths of the line av_log_format_line writes into line[1024]
LineLens == {0, 600}
\* cur_line: no buffer yet (pthreads build), or a buffer holding n characters
NullLine == [alloc |-> FALSE, len |-> 0]
Line(n) == [alloc |-> TRUE, len |-> n]
NoLog == [thread |-> "none", enabled |-> FALSE, nested |-> FALSE,
          complete |-> FALSE, after |-> FALSE, outcome |-> "none"]

\* static/zero-initialised state: level AV_LOG_QUIET, no guard, no line buffer
LogIdle ==
    /\ av_log_level_plex = AV_LOG_QUIET
    /\ logging = [t \in Threads |-> 0]
    /\ cur_line = [t \in Threads |-> NullLine]
    /\ logStack = [t \in Threads |-> <<>>]
    /\ lastLog = NoLog

\* ---- the decoder: output buffer indices of the codec ----
NOutBufs == 2
OutIndices == 0..(NOutBufs - 1)
\* an output buffer the codec owns and the decoder has not dequeued yet
FreshBuf == [owner |-> "codec", wrapped |-> FALSE, eos |-> FALSE, rel |-> 0]
NoDec == [op |-> "none", pkt |-> "none", queued |-> "none", ret |-> 0,
          eosBefore |-> FALSE]

\* priv_data is zero-filled by avcodec before mediacodecndk_decode_init
DecIdle ==
    /\ dpc = "new"
    /\ decoder = "NULL"
    /\ decoder_ref = FALSE
    /\ bsfc = FALSE
    /\ eos_reached = 0
    /\ codec = "none"
    /\ refCount = 0
    /\ nDeleted = 0
    /\ afterDelete = {}
    /\ bufs = [i \in OutIndices |-> FreshBuf]
    /\ eosQueued = FALSE
    /\ lastDec = NoDec

\* ---- the encoder ----
NoPoll == [status |-> "none", released |-> FALSE]

\* the encoder after mediacodecndk_encode_init returned 0
EncIdle ==
    /\ epc = "idle"
    /\ eframe = "none"
    /\ saw_output_eos = FALSE
    /\ new_extradata = FALSE
    /\ eosInputs = 0
    /\ inputAfterEos = FALSE
    /\ pending = 0
    /\ cfgSent = FALSE
    /\ fmtSent = FALSE
    /\ encRet = 0
    /\ got_packet = 0
    /\ queuedThis = "none"
    /\ lastPoll = NoPoll
    /\ pollTick = 0

CodecIdle == LogIdle /\ DecIdle /\ EncIdle

\* the work-item variables while the filter runs
KernelIdle ==
    /\ kpc = "launched"
    /\ kfunc = NullFunc
    /\ kinst = NoInst
    /\ tap = <<>>
    /\ ditherVal = 0
    /\ dstVal = <<>>

\* the filter variables while a work-item runs
FilterIdle ==
    /\ FilterInit
    /\ format = "NONE"

\* the launch variables while no launch is followed
NoLaunch == [func |-> NullFunc, dst_width |-> 0, dst_height |-> 0, dst_pitch |-> 0,
             src_width |-> 0, src_height |-> 0]

NoItem == [bx |-> 0, by |-> 0, tx |-> 0, ty |-> 0]

GeomIdle ==
    /\ gpc = "idle"
    /\ glaunch = NoLaunch
    /\ ggrid = <<0, 0>>
    /\ gitem = NoItem
    /\ gres = <<>>
    /\ ditherMem = <<>>

\* the axis variables while no axis is followed
WeightIdle ==
    /\ wpc = "start"
    /\ wdim = <<0, 0, 0>>
    /\ wres = <<>>

KernelSpecInit == KernelInit /\ FilterIdle /\ GeomIdle /\ WeightIdle /\ CodecIdle

KernelSpec == KernelSpecInit /\ [][KernelNext]_vars

(***************************************************************************)
(* Properties of the conversion templates and kernels (KernelSpec).        *)
(***************************************************************************)
Ran == kpc \in {"done", "conv"}

\* the SRC channel that feeds DST channel ch
SrcChan(ch) == IF kinst.conv = "add_conv_shift2_y" THEN 2 ELSE ch

\* the four samples of the SRC channel feeding DST channel ch, summed
Sum4(ch) == tap[1][SrcChan(ch)] + tap[2][SrcChan(ch)]
            + tap[3][SrcChan(ch)] + tap[4][SrcChan(ch)]

Uniform == tap[1] = tap[2] /\ tap[2] = tap[3] /\ tap[3] = tap[4]

\* C2: for equal source and destination bit depth, the kernel built on
\* add_conv_shift1_d returns the same output as the kernel built on
\* add_conv_shift1 for the same four samples and dither value.
C2_DitherCapableEqualsPlain ==
    (kpc = "done" /\ kinst.conv = "add_conv_shift1_d" /\ kinst.srcBits = kinst.dstBits)
        => dstVal = add_conv_shift1(kinst.srcBits, kinst.dstBits, kinst.shift, 0,
                                    tap[1], tap[2], tap[3], tap[4], ditherVal)

\* C3: on the non-dithered path with shift = 0 every output channel is
\* (a + b + c + d + 2) >> 2 of its four samples, for the 1-, 2-, 3- and
\* 4-channel conversions (and the two single-channel extractions of a
\* 2-channel source); four samples of 10 give 10.
C3_RoundHalfUp ==
    (Ran /\ kinst.shift = 0 /\ kinst.conv # "add_conv_shift1_d")
        => /\ Len(dstVal) = (IF kinst.conv \in {"add_conv_shift2_x", "add_conv_shift2_y"}
                             THEN 1 ELSE Len(tap[1]))
           /\ \A ch \in 1..Len(dstVal) : dstVal[ch] = (Sum4(ch) + 2) \div 4

C3_Witness ==
    /\ kpc = "done"
    /\ kinst.conv = "add_conv_shift1"
    /\ kinst.shift = 0
    /\ tap = <<(<<10>>), (<<10>>), (<<10>>), (<<10>>)>>
    /\ dstVal = <<10>>

\* C5: in the dithering kernel the bias added to the four-sample sum is
\* (1 + ditherVal) >> (source bits - dither + 3), and it is a per-pixel
\* quantity: the dither values 0..65535 do not all give the same bias.
C5_BiasVariesWithDither ==
    (kpc = "done" /\ kinst.dither # 0)
        => /\ dstVal[1] = ShiftConv(Sum4(1) + (1 + ditherVal)
                                       \div Pow2(kinst.srcBits - kinst.dither + 3),
                                     kinst.shift, kinst.dstBits)
           /\ \E d \in 0..65535 :
                (1 + d) \div Pow2(kinst.srcBits - kinst.dither + 3)
                  # 1 \div Pow2(kinst.srcBits - kinst.dither + 3)

\* the bias the conversion that ran adds to Sum4
BiasAdded ==
    IF kinst.conv = "add_conv_shift1_d"
    THEN (1 + ditherVal) \div Pow2(kinst.srcBits - kinst.dither + 3)
    ELSE 2

\* C6: the biased sum is shifted right by 2 bits for shift 0, right by 10
\* bits for shift 8 and left by 6 bits for shift -8, and then truncated to
\* the destination sample width; no other shift is instantiated.
C6_ShiftByVariant ==
    kpc = "done"
        => /\ kinst.shift \in {0, 8, -8}
           /\ \A ch \in 1..Len(dstVal) :
                LET b == Sum4(ch) + BiasAdded IN
                /\ kinst.shift = 0  => dstVal[ch] = (b \div 4) % Pow2(kinst.dstBits)
                /\ kinst.shift = 8  => dstVal[ch] = (b \div 1024) % 256
                /\ kinst.shift = -8 => dstVal[ch] = (b * 64) % 65536

C6_Witness ==
    /\ kpc = "done"
    /\ kinst.shift = -8
    /\ kinst.conv = "add_conv_shift1"
    /\ tap = <<(<<255>>), (<<255>>), (<<255>>), (<<255>>)>>
    /\ dstVal = <<65408>>

\* C7: the accumulator (four samples plus bias) stays below 2^32 and the
\* shifted value already fits the destination sample, so the cast to the
\* destination type changes nothing.
C7_NoWrapNoLoss ==
    kpc = "done"
        => \A ch \in 1..Len(dstVal) :
             LET b == Sum4(ch) + BiasAdded
                 w == IF kinst.shift > -2
                      THEN b \div Pow2(2 + kinst.shift)
                      ELSE b * Pow2(-kinst.shift - 2)
             IN  /\ (b \div 65536) \div 65536 = 0
                 /\ w <= MaxSample(kinst.dstBits)
                 /\ dstVal[ch] = w

C7_Witness ==
    /\ kpc = "done"
    /\ kinst.dither # 0
    /\ ditherVal = 65535
    /\ tap = <<(<<65535>>), (<<65535>>), (<<65535>>), (<<65535>>)>>
    /\ dstVal = <<255>>

cudascale_setup_dither_NoTex(fail, buf, tex, depth) ==
    IF fail \in {"d_push", "d_alloc"}
    THEN <<AVERROR_EXTERNAL, buf, tex, depth>>
    ELSE IF fail \in {"d_cpy", "d_tex"}
    THEN <<AVERROR_EXTERNAL, 1, tex, depth>>
    ELSE <<0, 1, tex, depth>>

(***************************************************************************)
(* cudascale_setup_dither (lines 500-555).  Returns the new                *)
(* <<ret, ditherBuffer, ditherTex, ctxDepth>>; fail names the driver call  *)
(* that fails, if any.                                                     *)
(***************************************************************************)
cudascale_setup_dither(fail, buf, tex, depth) ==
    CASE fail = "d_push"  -> <<AVERROR_EXTERNAL, buf, tex, depth>>
      [] fail = "d_alloc" -> <<AVERROR_EXTERNAL, buf, tex, depth>>
      [] fail = "d_cpy"   -> <<AVERROR_EXTERNAL, 1, tex, depth>>
      [] fail = "d_tex"   -> <<AVERROR_EXTERNAL, 1, tex, depth>>
      [] OTHER            -> <<0, 1, 1, depth>>

\* cuMemAlloc(&s->ditherBuffer, ...) of line 541 is reached and succeeds
DitherBufAllocs(fail) == IF fail \in {"d_push", "d_alloc"} THEN 0 ELSE 1

\* cuTexObjectCreate(&s->ditherTex, ...) of line 549 is reached and succeeds
DitherTexCreates(fail) ==
    IF fail \in {"d_push", "d_alloc", "d_cpy", "d_tex"} THEN 0 ELSE 1

(***************************************************************************)
(* init_stage (lines 385-435): the plane sizes it stores.                  *)
(***************************************************************************)
\* if (!s->planes_out[0].width) planes_out[0] = planes_in[0]
StageOut0(in0, out0) == IF out0.width = 0 THEN in0 ELSE out0

\* s->planes_X[i].width = s->planes_X[0].width >> sw (and height >> sh), i = 1, 2
StagePlanes(p0, fmt) ==
    [i \in 0..2 |->
        IF i = 0 THEN p0
        ELSE [width  |-> Rshift(p0.width,  Log2ChromaW(fmt)),
              height |-> Rshift(p0.height, Log2ChromaH(fmt))]]

(***************************************************************************)
(* Kernel selection of cudascale_config_props (lines 632-663).  Returns    *)
(* <<ret, luma, chroma_u, chroma_v>> from the plane counts, the component  *)
(* depths and the kernels selected before.                                 *)
(***************************************************************************)
SelectSet(ind, outd) ==
    CASE BITS(ind) = 8  /\ BITS(outd) = 8  -> "8_8"
      [] BITS(ind) = 16 /\ BITS(outd) = 16 -> "16_16"
      [] BITS(ind) = 8  /\ BITS(outd) = 16 -> "8_16"
      [] BITS(ind) = 16 /\ BITS(outd) = 8  -> "16_8"
      [] OTHER -> "NULL"

SelectKernels(ind, outd, inp, outp, luma, cu, cv) ==
    LET set == SelectSet(ind, outd)
        K(sfx) == [set |-> set, sfx |-> sfx]
    IN  IF set = "NULL" THEN <<AVERROR_BUG, luma, cu, cv>>
        ELSE CASE inp = 3 /\ outp = 3 -> <<0, K(""), K("_c"), K("_c")>>
               [] inp = 3 /\ outp = 2 -> <<0, K(""), K("_p2"), K("_p2")>>
               [] inp = 2 /\ outp = 2 -> <<0, K(""), K("_2"), cv>>
               [] inp = 2 /\ outp = 3 -> <<0, K(""), K("_2_u"), K("_2_v")>>
               [] OTHER -> <<AVERROR_BUG, K(""), cu, cv>>

(***************************************************************************)
(* cudascale_config_props (lines 557-685) with init_processing_chain       *)
(* (447-498), init_stage (385-435) and cudascale_setup_dither (500-555).   *)
(*   sw    : inlink's hw frames sw_format                                  *)
(*   iw,ih : inlink->w, inlink->h                                          *)
(*   w,h   : the result of ff_scale_eval_dimensions                        *)
(*   fail  : the call that fails, "none" for none.  (The result of a       *)
(*           failing cuModuleGetFunction is dropped by the VARIANT macro   *)
(*           of lines 583-586, so that failure is the case "none".)        *)
(***************************************************************************)
ConfigFails == {"none", "push", "module", "eval",
                "stage_alloc", "stage_getbuf", "bufref",
                "d_push", "d_alloc", "d_cpy", "d_tex"}

\* <<inlink->w, inlink->h, w, h>>
ConfigDims == {<<1920, 1080, 960, 540>>,
               <<1921, 1081, 1921, 1081>>}

\* the filter-context fields a configuration leaves alone when it returns
\* before init_processing_chain stores anything
ConfigKeepsChain ==
    UNCHANGED <<passthrough, in_fmt, out_fmt, planes_in, planes_out, frame_w, frame_h>>

ConfigKeepsSelection ==
    UNCHANGED <<in_desc, out_desc, in_planes, out_planes,
                cu_func_luma, cu_func_chroma_u, cu_func_chroma_v,
                ditherBuffer, ditherTex>>

\* cudascale_setup_dither is not reached
ConfigKeepsDither ==
    /\ nDitherBuf' = 0
    /\ nDitherTex' = 0

ConfigReturn(ret, at) ==
    /\ lastRet' = ret
    /\ failedAt' = at
    /\ cfgOk' = (ret = 0)

cudascale_config_props(sw, iw, ih, w, h, fail) ==
    /\ lastOp # "uninit"
    /\ nconfig < MaxConfigs
    /\ nconfig' = nconfig + 1
    /\ lastOp' = "config"
    /\ launches' = <<>>
    /\ delivered' = FALSE
    /\ hwctx' = TRUE
    /\ link_w' = iw
    /\ link_h' = ih
    /\ UNCHANGED <<format, kvars, gvars, wvars, cvars>>
    /\ LET out_format == IF format = "NONE" THEN sw ELSE format
           in0  == [width |-> iw, height |-> ih]
           out0 == StageOut0(in0, [width |-> w, height |-> h])
       IN
       IF fail = "push" THEN
            \* cuCtxPushCurrent failed: goto fail
            /\ ConfigReturn(AVERROR_EXTERNAL, "push")
            /\ ConfigKeepsChain /\ ConfigKeepsSelection /\ ConfigKeepsDither
            /\ UNCHANGED ctxDepth
       ELSE IF fail = "module" THEN
            \* cuModuleLoadData failed: goto fail, the context stays pushed
            /\ ConfigReturn(AVERROR_EXTERNAL, "module")
            /\ ConfigKeepsChain /\ ConfigKeepsSelection /\ ConfigKeepsDither
            /\ ctxDepth' = ctxDepth + 1
       ELSE IF fail = "eval" THEN
            /\ ConfigReturn(AVERROR(EINVAL), "eval")
            /\ ConfigKeepsChain /\ ConfigKeepsSelection /\ ConfigKeepsDither
            /\ UNCHANGED ctxDepth
       ELSE IF ~format_is_supported(sw) \/ ~format_is_supported(out_format) THEN
            /\ ConfigReturn(AVERROR(ENOSYS), "format")
            /\ ConfigKeepsChain /\ ConfigKeepsSelection /\ ConfigKeepsDither
            /\ UNCHANGED ctxDepth
       ELSE
            \* init_processing_chain stores the formats and sizes, init_stage
            \* the chroma plane sizes
            /\ passthrough' = (IF iw = w /\ ih = h /\ sw = out_format
                               THEN 1 ELSE passthrough)
            /\ in_fmt' = sw
            /\ out_fmt' = out_format
            /\ planes_in'  = StagePlanes(in0, sw)
            /\ planes_out' = StagePlanes(out0, out_format)
            /\ IF fail \in {"stage_alloc", "stage_getbuf", "bufref"} THEN
                 /\ ConfigReturn(IF fail \in {"stage_alloc", "bufref"}
                                 THEN AVERROR(ENOMEM) ELSE AVERROR_EXTERNAL, fail)
                 \* av_frame_unref(s->frame) precedes the failing get_buffer
                 /\ frame_w' = (IF fail = "stage_getbuf" THEN 0
                                ELSE IF fail = "bufref" THEN out0.width ELSE frame_w)
                 /\ frame_h' = (IF fail = "stage_getbuf" THEN 0
                                ELSE IF fail = "bufref" THEN out0.height ELSE frame_h)
                 /\ ConfigKeepsSelection /\ ConfigKeepsDither
                 /\ UNCHANGED ctxDepth
               ELSE
                 LET inp  == CountPlanes(in_planes, sw)
                     outp == CountPlanes(out_planes, out_format)
                     sel  == SelectKernels(Depth(sw), Depth(out_format), inp, outp,
                                           cu_func_luma, cu_func_chroma_u,
                                           cu_func_chroma_v)
                     setup == sel[1] = 0 /\ Depth(sw) > Depth(out_format)
                     dith == IF setup
                             THEN cudascale_setup_dither(fail, ditherBuffer,
                                                         ditherTex, ctxDepth)
                             ELSE <<sel[1], ditherBuffer, ditherTex, ctxDepth>>
                 IN  /\ frame_w' = out0.width
                     /\ frame_h' = out0.height
                     /\ in_desc' = sw
                     /\ out_desc' = out_format
                     /\ in_planes' = inp
                     /\ out_planes' = outp
                     /\ cu_func_luma' = sel[2]
                     /\ cu_func_chroma_u' = sel[3]
                     /\ cu_func_chroma_v' = sel[4]
                     /\ ditherBuffer' = dith[2]
                     /\ ditherTex' = dith[3]
                     /\ ctxDepth' = dith[4]
                     /\ nDitherBuf' = (IF setup THEN DitherBufAllocs(fail) ELSE 0)
                     /\ nDitherTex' = (IF setup THEN DitherTexCreates(fail) ELSE 0)
                     /\ ConfigReturn(dith[1],
                                     IF dith[1] = 0 THEN "none"
                                     ELSE IF setup THEN fail ELSE "select")

Config ==
    \E sw \in AllFormats, d \in ConfigDims, fail \in ConfigFails :
        cudascale_config_props(sw, d[1], d[2], d[3], d[4], fail)

(***************************************************************************)
(* call_resize_kernel (lines 687-729): the record of one call.  outcome is *)
(* "ok", "tex" (cuTexObjectCreate fails, nothing is launched) or "launch"  *)
(* (cuLaunchKernel fails).                                                 *)
(***************************************************************************)
KernelOutcomes == {"ok", "tex", "launch"}

call_resize_kernel(plane, func, channels, sw, sh, dst_dptr, dw, dh, dst_pitch, pixel_size, outcome) ==
    [plane |-> plane, func |-> func, channels |-> channels,
     src_width |-> sw, src_height |-> sh,
     dst_dptr |-> dst_dptr, dst_width |-> dw, dst_height |-> dh,
     dst_pitch |-> dst_pitch, pixel_size |-> pixel_size,
     ret |-> IF outcome = "ok" THEN 0 ELSE AVERROR_EXTERNAL]

\* out->data[p] + offset: a byte address in plane p of the output frame
OutData(p, offset) == [plane |-> p, offset |-> offset]

\* out->linesize[p] of a frame of format fmt and width w: the bytes of one
\* row of the plane (the allocator may pad rows; no padding is the tightest)
OutLinesize(fmt, w, p) ==
    LET bytes == DEPTH_BYTES(Depth(fmt))
        cw == AV_CEIL_RSHIFT(w, Log2ChromaW(fmt))
    IN  IF p = 0 THEN w * bytes
        ELSE IF CompPlane(fmt, 2) = 1 THEN 2 * cw * bytes
        ELSE cw * bytes

(***************************************************************************)
(* scalecuda_resize (lines 731-768): the calls it makes, in order, for an  *)
(* input frame of in_w x in_h and the output frame s->frame.  k[i] is the  *)
(* outcome of the i-th call.  The function returns 0.                      *)
(***************************************************************************)
ResizeCalls(in_w, in_h, out_w, out_h, k) ==
    LET ch  == IF in_planes = 2 THEN 2 ELSE 1
        csw == AV_CEIL_RSHIFT(in_w,  Log2ChromaW(in_desc))
        csh == AV_CEIL_RSHIFT(in_h,  Log2ChromaH(in_desc))
        cdw == AV_CEIL_RSHIFT(out_w, Log2ChromaW(out_desc))
        cdh == AV_CEIL_RSHIFT(out_h, Log2ChromaH(out_desc))
        px  == DEPTH_BYTES(Depth(in_desc))
        vp  == CompPlane(out_desc, 2)
        luma == call_resize_kernel("luma", cu_func_luma, 1, in_w, in_h,
                                   OutData(0, 0), out_w, out_h,
                                   OutLinesize(out_desc, out_w, 0), px, k[1])
        u    == call_resize_kernel("chroma_u", cu_func_chroma_u, ch, csw, csh,
                                   OutData(1, 0), cdw, cdh,
                                   OutLinesize(out_desc, out_w, 1), px, k[2])
        v    == call_resize_kernel("chroma_v", cu_func_chroma_v, ch, csw, csh,
                                   OutData(vp, CompOffset(out_desc, 2)), cdw, cdh,
                                   OutLinesize(out_desc, out_w, vp), px, k[3])
    IN  IF cu_func_chroma_v # NullFunc THEN <<luma, u, v>> ELSE <<luma, u>>

scalecuda_resize(calls) == 0

(***************************************************************************)
(* cudascale_filter_frame (lines 798-836) with cudascale_scale (770-796).  *)
(*   fail : the call that fails, "none" for none                           *)
(*   k    : the outcomes of the call_resize_kernel calls                   *)
(* The runs tried are those in which at most one call of the frame fails.  *)
(***************************************************************************)
FrameFails == {"none", "alloc", "push", "getbuf", "copyprops", "downstream"}

KernelRuns ==
    {[i \in 1..3 |-> "ok"]}
    \cup {[i \in 1..3 |-> IF i = j THEN o ELSE "ok"] :
              j \in 1..3, o \in KernelOutcomes \ {"ok"}}

cudascale_filter_frame(fail, k) ==
    /\ lastOp # "uninit"
    /\ cfgOk
    /\ lastOp' = "filter_frame"
    /\ UNCHANGED <<hwctx, format, passthrough, in_fmt, out_fmt, planes_in, planes_out,
                   in_desc, out_desc, in_planes, out_planes,
                   cu_func_luma, cu_func_chroma_u, cu_func_chroma_v,
                   ditherBuffer, ditherTex, link_w, link_h, ctxDepth,
                   nconfig, failedAt, nDitherBuf, nDitherTex, cfgOk, kvars,
                   gvars, wvars, cvars>>
    /\ IF fail = "alloc" THEN
            /\ lastRet' = AVERROR(ENOMEM)
            /\ launches' = <<>>
            /\ delivered' = FALSE
            /\ UNCHANGED <<frame_w, frame_h>>
       ELSE IF fail = "push" THEN
            /\ lastRet' = AVERROR_EXTERNAL
            /\ launches' = <<>>
            /\ delivered' = FALSE
            /\ UNCHANGED <<frame_w, frame_h>>
       ELSE
            \* cudascale_scale between cuCtxPushCurrent and cuCtxPopCurrent
            LET calls == ResizeCalls(link_w, link_h, frame_w, frame_h, k)
                ret0  == scalecuda_resize(calls)
                ret   == IF ret0 < 0 THEN ret0
                         ELSE IF fail = "getbuf" THEN AVERROR(ENOMEM)
                         ELSE IF fail = "copyprops" THEN AVERROR(ENOMEM)
                         ELSE 0
            IN  /\ launches' = calls
                \* after av_hwframe_get_buffer succeeded s->frame is the new
                \* buffer, sized planes_out[0]
                /\ frame_w' = (IF ret0 < 0 \/ fail = "getbuf" THEN frame_w
                               ELSE planes_out[0].width)
                /\ frame_h' = (IF ret0 < 0 \/ fail = "getbuf" THEN frame_h
                               ELSE planes_out[0].height)
                /\ delivered' = (ret >= 0)
                /\ lastRet' = (IF ret < 0 THEN ret
                               ELSE IF fail = "downstream" THEN AVERROR(ENOMEM)
                               ELSE 0)

FilterFrame ==
    \/ \E fail \in FrameFails :
         cudascale_filter_frame(fail, [i \in 1..3 |-> "ok"])
    \/ \E k \in KernelRuns :
         cudascale_filter_frame("none", k)

(***************************************************************************)
(* cudascale_uninit (lines 347-373).  pushFails: cuCtxPushCurrent fails    *)
(* (its result is dropped, cuCtxPopCurrent is still called).               *)
(***************************************************************************)
cudascale_uninit(pushFails) ==
    /\ lastOp # "uninit"
    /\ lastOp' = "uninit"
    /\ lastRet' = 0
    /\ IF hwctx
       THEN /\ ditherTex' = 0
            /\ ditherBuffer' = 0
            /\ ctxDepth' = (IF pushFails /\ ctxDepth > 0 THEN ctxDepth - 1 ELSE ctxDepth)
       ELSE UNCHANGED <<ditherTex, ditherBuffer, ctxDepth>>
    /\ frame_w' = 0
    /\ frame_h' = 0
    /\ cfgOk' = FALSE
    /\ UNCHANGED <<hwctx, format, passthrough, in_fmt, out_fmt, planes_in, planes_out,
                   in_desc, out_desc, in_planes, out_planes,
                   cu_func_luma, cu_func_chroma_u, cu_func_chroma_v,
                   link_w, link_h, nconfig, failedAt, nDitherBuf,
                   nDitherTex, launches, delivered, kvars, gvars, wvars, cvars>>

Uninit == \E pushFails \in BOOLEAN : cudascale_uninit(pushFails)

Init == FilterInit /\ KernelIdle /\ GeomIdle /\ WeightIdle /\ CodecIdle

Next == Config \/ FilterFrame \/ Uninit

Spec == Init /\ [][Next]_vars

(***************************************************************************)
(* Properties of the filter (Spec).                                        *)
(***************************************************************************)
KernelFailed == \E i \in 1..Len(launches) : launches[i].ret < 0

\* C1: when call_resize_kernel returned a negative code for a plane of the
\* frame, cudascale_filter_frame returns a negative error and hands no
\* output frame to ff_filter_frame; no plane is launched twice.
C1_LaunchFailurePropagates ==
    (lastOp = "filter_frame" /\ KernelFailed)
        => /\ lastRet < 0
           /\ ~delivered
           /\ \A i, j \in 1..Len(launches) :
                i # j => launches[i].plane # launches[j].plane

SelectedKernels ==
    {cu_func_luma, cu_func_chroma_u, cu_func_chroma_v} \ {NullFunc}

\* C4: every kernel the configuration selected has a non-zero dither template
\* argument only if its destination sample is narrower than its source
\* sample and the formats narrow; for equal or widening sample width every
\* selected kernel has dither argument 0 and reads dither value 0.
C4_DitherOnlyWhenNarrowing ==
    in_desc # "NULL"
        => \A f \in SelectedKernels :
             LET inst == Instantiation(f) IN
             /\ inst.srcBits = BITS(Depth(in_desc))
             /\ inst.dstBits = BITS(Depth(out_desc))
             /\ inst.dither # 0 => inst.dstBits < inst.srcBits
             /\ BITS(Depth(in_desc)) <= BITS(Depth(out_desc))
                  => /\ inst.dither = 0
                     /\ \A t \in DitherTexels : ReadDither(inst.dither, t) = 0

C4_Witness ==
    /\ lastOp = "config"
    /\ lastRet = 0
    /\ in_desc = "p016"
    /\ out_desc = "nv12"
    /\ Instantiation(cu_func_luma).dither # 0
    /\ Instantiation(cu_func_chroma_u).dither = 0

CeilDiv(a, b) == IF a % b = 0 THEN a \div b ELSE a \div b + 1

\* C9: the chroma plane sizes recorded at configuration (planes_in[1..2],
\* planes_out[1..2]) and the sizes passed to the chroma kernel launches are
\* the luma sizes divided by 2^subsampling, rounded up.
C9_ChromaDimsCeil ==
    /\ cfgOk
         => \A i \in 1..2 :
              /\ planes_in[i].width
                   = CeilDiv(planes_in[0].width, Pow2(Log2ChromaW(in_fmt)))
              /\ planes_in[i].height
                   = CeilDiv(planes_in[0].height, Pow2(Log2ChromaH(in_fmt)))
              /\ planes_out[i].width
                   = CeilDiv(planes_out[0].width, Pow2(Log2ChromaW(out_fmt)))
              /\ planes_out[i].height
                   = CeilDiv(planes_out[0].height, Pow2(Log2ChromaH(out_fmt)))
    /\ \A i \in 2..Len(launches) :
         /\ launches[i].src_width
              = CeilDiv(launches[1].src_width, Pow2(Log2ChromaW(in_fmt)))
         /\ launches[i].src_height
              = CeilDiv(launches[1].src_height, Pow2(Log2ChromaH(in_fmt)))
         /\ launches[i].dst_width
              = CeilDiv(launches[1].dst_width, Pow2(Log2ChromaW(out_fmt)))
         /\ launches[i].dst_height
              = CeilDiv(launches[1].dst_height, Pow2(Log2ChromaH(out_fmt)))

\* number of planes and container width of a supported format
NbPlanes(fmt) == IF fmt \in {"nv12", "p010", "p016"} THEN 2 ELSE 3

ContainerBits(fmt) == IF fmt \in {"p010", "p016"} THEN 16 ELSE 8

ContainerSet(inf, outf) ==
    CASE ContainerBits(inf) = 8  /\ ContainerBits(outf) = 8  -> "8_8"
      [] ContainerBits(inf) = 16 /\ ContainerBits(outf) = 16 -> "16_16"
      [] ContainerBits(inf) = 8  /\ ContainerBits(outf) = 16 -> "8_16"
      [] ContainerBits(inf) = 16 /\ ContainerBits(outf) = 8  -> "16_8"

\* C10: configuration never returns AVERROR_BUG, and after a successful
\* configuration the recorded plane counts are those of the configured
\* formats, the luma kernel is the one of the formats' container widths and
\* the chroma kernels are the variant of the formats' plane layouts.
C10_KernelsMatchFormats ==
    /\ lastRet # AVERROR_BUG
    /\ (lastOp = "config" /\ lastRet = 0)
         => LET set == ContainerSet(in_fmt, out_fmt)
                K(sfx) == [set |-> set, sfx |-> sfx]
                inp == NbPlanes(in_fmt)
                outp == NbPlanes(out_fmt)
            IN  /\ in_planes = inp
                /\ out_planes = outp
                /\ cu_func_luma = K("")
                /\ (inp = 3 /\ outp = 3)
                     => cu_func_chroma_u = K("_c") /\ cu_func_chroma_v = K("_c")
                /\ (inp = 3 /\ outp = 2)
                     => cu_func_chroma_u = K("_p2") /\ cu_func_chroma_v = K("_p2")
                /\ (inp = 2 /\ outp = 2)
                     => cu_func_chroma_u = K("_2")
                /\ (inp = 2 /\ outp = 3)
                     => cu_func_chroma_u = K("_2_u") /\ cu_func_chroma_v = K("_2_v")

\* the step is a call of cudascale_config_props
ConfigStep == lastOp' = "config" /\ nconfig' = nconfig + 1

\* the step is a call of cudascale_filter_frame
FrameStep == lastOp' = "filter_frame"

\* C11: a configuration whose input sw format or requested output format is
\* not one of the supported formats returns AVERROR(ENOSYS) with no kernel
\* selected by it: the stored formats, the plane sizes and the selected
\* kernels stay as they were, and no kernel is launched for it (kernels are
\* launched only while the stored formats are supported ones that a
\* configuration accepted).
C11_UnsupportedFormatRejected ==
    /\ [](cfgOk => in_fmt \in supported_formats /\ out_fmt \in supported_formats)
    /\ [](launches # <<>> => failedAt = "none")
    /\ [][(ConfigStep /\ failedAt' = "format")
            => /\ lastRet' = AVERROR(ENOSYS)
               /\ ~cfgOk'
               /\ launches' = <<>>
               /\ UNCHANGED <<in_fmt, out_fmt, planes_in, planes_out,
                              in_desc, out_desc, in_planes, out_planes,
                              cu_func_luma, cu_func_chroma_u, cu_func_chroma_v>>]_vars

\* a configuration with kernels selected was followed by a rejected one
C11_Witness ==
    /\ lastOp = "config"
    /\ nconfig = 2
    /\ failedAt = "format"
    /\ lastRet = AVERROR(ENOSYS)
    /\ cu_func_luma # NullFunc
    /\ planes_in[0].width > 0

\* a call_resize_kernel call of the last frame launched a dithering kernel
DitherLaunched ==
    \E i \in 1..Len(launches) :
        /\ launches[i].func \in Variants
        /\ Instantiation(launches[i].func).dither # 0
        /\ launches[i].ret = 0

\* C12: a configuration that succeeds with a source depth above the
\* destination depth allocates the dither buffer once and creates the dither
\* texture once, before any frame of it is filtered; filtering a frame neither
\* creates nor replaces them; and both exist when a frame launched a
\* dithering kernel.
C12_DitherCreatedOncePerConfig ==
    /\ [][(ConfigStep /\ cfgOk' /\ Depth(in_desc') > Depth(out_desc'))
            => /\ nDitherBuf' = 1 /\ nDitherTex' = 1
               /\ ditherBuffer' # 0 /\ ditherTex' # 0
               /\ launches' = <<>>]_vars
    /\ [][FrameStep
            => UNCHANGED <<ditherBuffer, ditherTex, nDitherBuf, nDitherTex>>]_vars
    /\ []((lastOp = "filter_frame" /\ DitherLaunched)
            => ditherBuffer # 0 /\ ditherTex # 0)

\* a frame of the second configuration launched a dithering kernel
C12_Witness ==
    /\ lastOp = "filter_frame"
    /\ nconfig = 2
    /\ DitherLaunched
    /\ nDitherBuf = 1 /\ nDitherTex = 1
    /\ ditherBuffer # 0 /\ ditherTex # 0

\* the last configuration failed in cudascale_setup_dither
DitherSetupFailed ==
    lastOp = "config" /\ failedAt \in {"d_push", "d_alloc", "d_cpy", "d_tex"}

\* C13: when a call of cudascale_setup_dither fails, cudascale_config_props
\* returns a negative code and the context holds neither a dither buffer nor
\* a dither texture.
C13_NoPartialDither ==
    DitherSetupFailed => lastRet < 0 /\ ditherBuffer = 0 /\ ditherTex = 0

\* C16: a frame is scaled by separate call_resize_kernel launches in the
\* order luma, chroma U, chroma V: three when the input or the output format
\* of the configuration has three planes, and two (luma and one 2-channel
\* chroma launch) when both have two.
C16_LaunchesPerFrame ==
    (lastOp = "filter_frame" /\ launches # <<>>)
        => LET three == NbPlanes(in_fmt) = 3 \/ NbPlanes(out_fmt) = 3 IN
           /\ Len(launches) = (IF three THEN 3 ELSE 2)
           /\ launches[1].plane = "luma"
           /\ launches[2].plane = "chroma_u"
           /\ three => launches[3].plane = "chroma_v"
           /\ ~three => /\ launches[2].channels = 2
                        /\ launches[2].func.sfx = "_2"

(***************************************************************************)
(* Rationals <<n, d>> with d > 0 in lowest terms: the values of the        *)
(* kernel's float variables, without the rounding of float arithmetic.     *)
(***************************************************************************)
RECURSIVE GCD(_, _)
GCD(a, b) == IF b = 0 THEN a ELSE GCD(b, a % b)

RNorm(n, d) ==
    LET g == GCD(Abs(n), Abs(d))
        sg == IF d < 0 THEN -1 ELSE 1
    IN  <<(sg * n) \div g, (sg * d) \div g>>

RInt(i) == <<i, 1>>
Zero == RInt(0)
One == RInt(1)
Half == <<1, 2>>

RAdd(a, b) == RNorm(a[1] * b[2] + b[1] * a[2], a[2] * b[2])
RSub(a, b) == RNorm(a[1] * b[2] - b[1] * a[2], a[2] * b[2])
RMul(a, b) == RNorm(a[1] * b[1], a[2] * b[2])
RDiv(a, b) == RNorm(a[1] * b[2], a[2] * b[1])
RLe(a, b) == a[1] * b[2] <= b[1] * a[2]
RMin(a, b) == IF RLe(a, b) THEN a ELSE b
RMax(a, b) == IF RLe(a, b) THEN b ELSE a
RFloor(a) == a[1] \div a[2]

(***************************************************************************)
(* The coordinate arithmetic of Subsample_Bilinear (lines 138-147), one    *)
(* axis at a time.                                                         *)
(***************************************************************************)
\* float hscale = (float)src_width / (float)dst_width;
Scale(src, dst) == RDiv(RInt(src), RInt(dst))

\* variant of SourceCentre that maps the pixel's corner instead of its centre
SourceCentre_Corner(o, scale) == RMul(RInt(o), scale)

\* float xi = (xo + 0.5f) * hscale;
SourceCentre(o, scale) == RMul(RAdd(RInt(o), Half), scale)

\* variant of FilterWeight without the upper clamp
FilterWeight_NoMin(scale) == RMax(RMul(Half, RSub(scale, One)), Zero)

\* float wh = min(max(0.5f * (hscale - 1.0f), 0.0f), 1.0f);
FilterWeight(scale) == RMin(RMax(RMul(Half, RSub(scale, One)), Zero), One)

\* variant of TapDisplacement that uses the weight as the displacement
TapDisplacement_Weight(w) == w

\* float dx = wh / (0.5f + wh);
TapDisplacement(w) == RDiv(w, RAdd(Half, w))

(***************************************************************************)
(* A fetch through the source texture object of call_resize_kernel (lines  *)
(* 699-702: CU_TR_FILTER_MODE_LINEAR, unnormalised coordinates, address    *)
(* mode left at its default), along one axis of n texels: the texels read  *)
(* (those of non-zero weight) and their weights at coordinate x.  The      *)
(* fraction is exact here.                                                 *)
(***************************************************************************)
ClampTexel(i, n) == IF i < 0 THEN 0 ELSE IF i > n - 1 THEN n - 1 ELSE i

LinearWeights(x, n) ==
    LET xB == RSub(x, Half)
        i  == RFloor(xB)
        a  == RSub(xB, RInt(i))
        t0 == ClampTexel(i, n)
        t1 == ClampTexel(i + 1, n)
        w(t) == RAdd(IF t = t0 THEN RSub(One, a) ELSE Zero,
                     IF t = t1 THEN a ELSE Zero)
    IN  [t \in {u \in {t0, t1} : w(u) # Zero} |-> w(t)]

\* weight of texel t in the fetch W
WeightOf(W, t) == IF t \in DOMAIN W THEN W[t] ELSE Zero

(***************************************************************************)
(* WeightSpec: the scale, weight and displacement of one axis with source  *)
(* size wdim[1] and destination size wdim[2], and the two taps the kernel  *)
(* places around a source coordinate that is the centre of texel wdim[3].  *)
(***************************************************************************)
WeightInit ==
    /\ wpc = "start"
    /\ wdim \in (1..MaxDim) \X (1..MaxDim) \X (1..2)
    /\ wres = <<>>

AxisWeights ==
    /\ wpc = "start"
    /\ LET hscale == Scale(wdim[1], wdim[2])
           wh == FilterWeight(hscale)
           dx == TapDisplacement(wh)
           c  == wdim[3]
           xi == RAdd(RInt(c), Half)
           n  == c + 2
           lo == LinearWeights(RSub(xi, dx), n)
           hi == LinearWeights(RAdd(xi, dx), n)
           W(t) == RAdd(WeightOf(lo, t), WeightOf(hi, t))
       IN  wres' = [scale |-> hscale, w |-> wh, d |-> dx,
                    left |-> W(c - 1), centre |-> W(c), right |-> W(c + 1)]
    /\ wpc' = "done"
    /\ UNCHANGED <<wdim, kvars, fvars, gvars, cvars>>

WeightSpecInit == WeightInit /\ KernelIdle /\ FilterIdle /\ GeomIdle /\ CodecIdle

WeightSpec == WeightSpecInit /\ [][AxisWeights]_vars

C19_ThreeTapProportion ==
    wpc = "done"
        => /\ wres.left = RMul(wres.w, wres.centre)
           /\ wres.right = RMul(wres.w, wres.centre)
           /\ RAdd(RAdd(wres.left, wres.centre), wres.right) = RInt(2)
           /\ wres.centre # Zero

\* weight 1/2: the taps weigh the three texels 1/2, 1, 1/2
C19_Witness ==
    /\ wpc = "done"
    /\ wres.w = <<1, 2>>
    /\ wres.left = <<1, 2>>
    /\ wres.centre = One
    /\ wres.right = <<1, 2>>

(***************************************************************************)
(* GeomSpec: one cuLaunchKernel of call_resize_kernel (lines 720-722) and  *)
(* one work-item of its grid running Subsample_Bilinear (lines 133-156).   *)
(***************************************************************************)
BLOCKX == 32
BLOCKY == 16

\* variant of DIV_UP that rounds down
DIV_UP_Floor(a, b) == a \div b

\* #define DIV_UP(a, b) ( ((a) + (b) - 1) / (b) )
DIV_UP(a, b) == (a + b - 1) \div b

\* the host matrix ff_fruit_dither_matrix: DitherSize x DitherSize 16-bit
\* entries, here pairwise different
ff_fruit_dither_matrix(x, y) == ((y * DitherSize + x) * 4001) % 65536

\* the device buffer after cuMemcpy2D of cudascale_setup_dither
DeviceMatrix ==
    [c \in (0 .. DitherSize - 1) \X (0 .. DitherSize - 1) |->
        ff_fruit_dither_matrix(c[1], c[2])]

\* first-channel sample of texel (x, y) of the source plane of a launch
SrcSample(x, y, bits) == (37 * x + 101 * y + 200) % Pow2(bits)

\* the launches followed: kernel, source size, destination size; dst_pitch
\* is the byte length of a destination row of dst_width * pitch pixels
Launch(set, sfx, sw, sh, dw, dh) ==
    LET f == [set |-> set, sfx |-> sfx] IN
    [func |-> f, dst_width |-> dw, dst_height |-> dh,
     dst_pitch |-> dw * VariantPitch(sfx) * SizeofDST(f),
     src_width |-> sw, src_height |-> sh]

GeomLaunches ==
    {Launch("8_8",   "",    33, 17, 33, 17),
     Launch("16_16", "_c",  32, 16, 32, 16),
     Launch("8_16",  "_2",   6,  6,  6,  6),
     Launch("16_8",  "",     6,  6,  6,  6),
     Launch("16_8",  "",    16, 12,  8,  6),
     Launch("8_8",   "_p2",  5,  5,  1,  1),
     Launch("8_8",   "_c",   1,  1, 32, 16),
     Launch("8_8",   "",    99, 51, 33, 17)}

GeomInit ==
    /\ gpc = "idle"
    /\ glaunch \in GeomLaunches
    /\ ggrid = <<0, 0>>
    /\ gitem = NoItem
    /\ gres = <<>>
    /\ ditherMem = DeviceMatrix

\* cuLaunchKernel(func, DIV_UP(dst_width, BLOCKX), DIV_UP(dst_height, BLOCKY), 1,
\*                BLOCKX, BLOCKY, 1, ...)
cuLaunchKernel ==
    /\ gpc = "idle"
    /\ ggrid' = <<DIV_UP(glaunch.dst_width, BLOCKX), DIV_UP(glaunch.dst_height, BLOCKY)>>
    /\ gpc' = "grid"
    /\ UNCHANGED <<glaunch, gitem, gres, ditherMem, kvars, fvars, wvars, cvars>>

\* tex2D<ushort>(ditherTex, xo, yo): point filter, unnormalised coordinates,
\* address mode left at 0 in tex_desc (lines 521-524).  Wrapping needs
\* normalised coordinates, so the driver clamps.
DitherTexel(xo, yo) == <<ClampTexel(xo, DitherSize), ClampTexel(yo, DitherSize)>>

\* a tap that lies on a texel centre reads that texel; the value of any other
\* tap depends on the texture unit's interpolation and is left open
ExactTap(Wx, Wy) == Cardinality(DOMAIN Wx) = 1 /\ Cardinality(DOMAIN Wy) = 1

TexelOf(W) == CHOOSE t \in DOMAIN W : TRUE

\* the body of Subsample_Bilinear for the work-item (bx, by, tx, ty)
WorkItemResult(L, bx, by, tx, ty) ==
    LET inst == Instantiation(L.func)
        xo == bx * BLOCKX + tx
        yo == by * BLOCKY + ty
    IN  IF yo < L.dst_height /\ xo < L.dst_width
        THEN LET hscale == Scale(L.src_width, L.dst_width)
                 vscale == Scale(L.src_height, L.dst_height)
                 xi == SourceCentre(xo, hscale)
                 yi == SourceCentre(yo, vscale)
                 wh == FilterWeight(hscale)
                 wv == FilterWeight(vscale)
                 dx == TapDisplacement(wh)
                 dy == TapDisplacement(wv)
                 pos == <<<<RSub(xi, dx), RSub(yi, dy)>>,
                          <<RAdd(xi, dx), RSub(yi, dy)>>,
                          <<RSub(xi, dx), RAdd(yi, dy)>>,
                          <<RAdd(xi, dx), RAdd(yi, dy)>>>>
                 Wx(k) == LinearWeights(pos[k][1], L.src_width)
                 Wy(k) == LinearWeights(pos[k][2], L.src_height)
                 exact == \A k \in 1..4 : ExactTap(Wx(k), Wy(k))
                 texel(k) == <<TexelOf(Wx(k)), TexelOf(Wy(k))>>
                 t == [k \in 1..4 |->
                         Pixel(SrcSample(texel(k)[1], texel(k)[2], inst.srcBits),
                               inst.nsrc, inst.srcBits)]
                 at == IF inst.dither # 0 THEN DitherTexel(xo, yo) ELSE <<>>
                 dv == IF inst.dither # 0 THEN ditherMem[at] ELSE 0
             IN  [xo |-> xo, yo |-> yo, inside |-> TRUE,
                  wh |-> wh, wv |-> wv, dx |-> dx, dy |-> dy,
                  pos |-> pos,
                  texels |-> IF exact THEN [k \in 1..4 |-> texel(k)] ELSE <<>>,
                  ditherAt |-> at, ditherVal |-> dv,
                  index |-> yo * (L.dst_pitch \div SizeofDST(L.func))
                            + xo * inst.pitch,
                  value |-> IF exact THEN Conv(inst, t, dv) ELSE <<>>]
        ELSE [xo |-> xo, yo |-> yo, inside |-> FALSE,
              wh |-> Zero, wv |-> Zero, dx |-> Zero, dy |-> Zero,
              pos |-> <<>>, texels |-> <<>>,
              ditherAt |-> <<>>, ditherVal |-> 0,
              index |-> -1, value |-> <<>>]

WorkItem ==
    /\ gpc = "grid"
    /\ \E bx \in 0 .. ggrid[1] - 1, by \in 0 .. ggrid[2] - 1,
          tx \in 0 .. BLOCKX - 1, ty \in 0 .. BLOCKY - 1 :
          /\ gitem' = [bx |-> bx, by |-> by, tx |-> tx, ty |-> ty]
          /\ gres' = WorkItemResult(glaunch, bx, by, tx, ty)
    /\ gpc' = "done"
    /\ UNCHANGED <<glaunch, ggrid, ditherMem, kvars, fvars, wvars, cvars>>

GeomNext == cuLaunchKernel \/ WorkItem

GeomSpecInit == GeomInit /\ KernelIdle /\ FilterIdle /\ WeightIdle /\ CodecIdle

GeomSpec == GeomSpecInit /\ [][GeomNext]_vars

\* C14: in the grid of DIV_UP(dst_width, 32) x DIV_UP(dst_height, 16) blocks
\* of 32 x 16 work-items every destination pixel is the (xo, yo) of exactly
\* one work-item, a work-item inside the destination writes the element of
\* its own (xo, yo), and a work-item outside it writes nothing.
C14_OneItemPerPixel ==
    /\ gpc = "grid"
         => /\ \A x \in 0 .. glaunch.dst_width - 1 :
                 Cardinality({c \in (0 .. ggrid[1] - 1) \X (0 .. 31) :
                                 c[1] * 32 + c[2] = x}) = 1
            /\ \A y \in 0 .. glaunch.dst_height - 1 :
                 Cardinality({c \in (0 .. ggrid[2] - 1) \X (0 .. 15) :
                                 c[1] * 16 + c[2] = y}) = 1
    /\ gpc = "done"
         => /\ gres.xo = gitem.bx * 32 + gitem.tx
            /\ gres.yo = gitem.by * 16 + gitem.ty
            /\ gres.inside = (gres.xo < glaunch.dst_width /\ gres.yo < glaunch.dst_height)
            /\ gres.inside
                 => gres.index = gres.yo * (glaunch.dst_pitch \div SizeofDST(glaunch.func))
                                 + gres.xo * Instantiation(glaunch.func).pitch
            /\ ~gres.inside => gres.index = -1 /\ gres.value = <<>>

\* a work-item of the second block column, right of a 33 pixel wide destination
C14_Witness ==
    /\ gpc = "done"
    /\ ggrid = <<2, 2>>
    /\ glaunch.dst_width = 33
    /\ gitem.bx = 1 /\ gitem.tx = 1
    /\ ~gres.inside
    /\ gres.index = -1

\* the work-item ran inside the destination of a launch whose source and
\* destination sizes are equal
UnitScaleItem ==
    /\ gpc = "done"
    /\ gres.inside
    /\ glaunch.src_width = glaunch.dst_width
    /\ glaunch.src_height = glaunch.dst_height

\* C18: with equal source and destination sizes the weights and
\* displacements of both axes are 0, the four taps lie on the centre
\* (xo + 0.5, yo + 0.5) of source texel (xo, yo) and read that texel, and a
\* kernel of equal source and destination depth writes that texel's sample.
C18_IdentityAtUnitScale ==
    UnitScaleItem
        => LET inst == Instantiation(glaunch.func)
               centre == <<RNorm(2 * gres.xo + 1, 2), RNorm(2 * gres.yo + 1, 2)>>
           IN  /\ gres.wh = Zero /\ gres.wv = Zero
               /\ gres.dx = Zero /\ gres.dy = Zero
               /\ \A k \in 1..4 : gres.pos[k] = centre
               /\ gres.texels = [k \in 1..4 |-> <<gres.xo, gres.yo>>]
               /\ inst.srcBits = inst.dstBits
                    => gres.value = Pixel(SrcSample(gres.xo, gres.yo, inst.srcBits),
                                          VariantDstChannels(glaunch.func.sfx),
                                          inst.srcBits)

\* the last pixel of the 33 x 17 plane copied by the 8-bit luma kernel
C18_Witness ==
    /\ UnitScaleItem
    /\ glaunch.func = [set |-> "8_8", sfx |-> ""]
    /\ gres.xo = 32 /\ gres.yo = 16
    /\ gres.value = <<SrcSample(32, 16, 8)>>

\* C20: a dithering work-item (xo, yo) uses the dither-matrix entry at
\* (xo mod DitherSize, yo mod DitherSize), also for coordinates at or beyond
\* DitherSize, and the matrix on the device keeps its initial contents.
C20_DitherTiled ==
    /\ gpc # "idle" => ditherMem = DeviceMatrix
    /\ (gpc = "done" /\ gres.inside /\ Instantiation(glaunch.func).dither # 0)
         => /\ gres.ditherAt = <<gres.xo % DitherSize, gres.yo % DitherSize>>
            /\ gres.ditherVal = ff_fruit_dither_matrix(gres.xo % DitherSize,
                                                       gres.yo % DitherSize)

\* the bytes of the output frame that work-item (x, y) of call c stores:
\* dst[yo * (dst_pitch / sizeof(DST)) + xo * pitch], dst = c.dst_dptr
ItemBytes(c, x, y) ==
    LET sz == SizeofDST(c.func)
        first == c.dst_dptr.offset
                 + (y * (c.dst_pitch \div sz) + x * VariantPitch(c.func.sfx)) * sz
    IN  {<<c.dst_dptr.plane, b>> : b \in first .. first + sz - 1}

\* the work-items of the frame's launched kernels with xo, yo < ItemSpan
FrameItems ==
    {it \in (1 .. Len(launches)) \X (0 .. ItemSpan - 1) \X (0 .. ItemSpan - 1) :
        /\ launches[it[1]].ret = 0
        /\ launches[it[1]].func \in Variants
        /\ it[2] < launches[it[1]].dst_width
        /\ it[3] < launches[it[1]].dst_height}

\* C15: no two work-items of the launches of one frame store to the same
\* location of the output frame: neither two work-items of one launch nor
\* work-items of the chroma U and chroma V launches.
C15_DisjointWrites ==
    lastOp = "filter_frame"
        => \A a, b \in FrameItems :
             a # b => ItemBytes(launches[a[1]], a[2], a[3])
                        \cap ItemBytes(launches[b[1]], b[2], b[3]) = {}

(***************************************************************************)
(* plex_log_callback and PMS_Log (the log forwarder at the end of          *)
(* libavcodec/mediacodecndkenc.c).  A thread that is inside PMS_Log issues  *)
(* an HTTP request, whose code logs through av_log and so re-enters        *)
(* plex_log_callback on the same thread: logStack[t] holds the callback    *)
(* invocations of thread t that are suspended inside PMS_Log.              *)
(***************************************************************************)
Min(a, b) == IF a <= b THEN a ELSE b

\* if (level > av_log_level_plex) return;
LevelDisabled(level) == level > av_log_level_plex

\* a mutation of RecursiveLogging: the guard is never consulted
RecursiveLogging_Never(t) == FALSE

\* if (pthread_getspecific(logging_key)) return;   /   if (logging) return;
RecursiveLogging(t) == logging[t] # 0

\* av_strlcat(cur_line, line, LOG_LINE_SIZE): the length of cur_line after it
av_strlcat(cur, len) == Min(cur + len, LOG_LINE_SIZE - 1)

\* PMS_Log returns at once when av_log_level_plex == AV_LOG_QUIET
PMS_Log_Quiet == av_log_level_plex = AV_LOG_QUIET

\* the length cur_line has before this call appends to it
LineBefore(t) == cur_line[t].len

\* print_prefix is set and strlen(cur_line) is not 0: PMS_Log is called
LineComplete(t, len, prefix) == prefix /\ av_strlcat(LineBefore(t), len) > 0

\* the message's level passes both level tests (plex_log_callback, PMS_Log)
LevelEnabled(level) == ~LevelDisabled(level) /\ ~PMS_Log_Quiet

\* after: the call before it was a call of the same thread that the guard
\* stopped, or followed one
LogCall(t, level, len, prefix) ==
    [thread |-> t, enabled |-> LevelEnabled(level), nested |-> logStack[t] # <<>>,
     complete |-> LineComplete(t, len, prefix),
     after |-> lastLog.thread = t /\ (lastLog.after \/ lastLog.outcome = "guarded"),
     outcome |-> "none"]

LogOutcome(t, level, len, prefix, o) ==
    lastLog' = [LogCall(t, level, len, prefix) EXCEPT !.outcome = o]

\* one invocation of plex_log_callback on thread t, up to its return or up
\* to the HTTP request of the PMS_Log call it makes
plex_log_callback(t, level, len, prefix, allocFails) ==
    /\ Len(logStack[t]) < MaxNest
    /\ IF LevelDisabled(level)
       THEN /\ LogOutcome(t, level, len, prefix, "filtered")
            /\ UNCHANGED <<logging, cur_line, logStack>>
       ELSE IF RecursiveLogging(t)
       THEN /\ LogOutcome(t, level, len, prefix, "guarded")
            /\ UNCHANGED <<logging, cur_line, logStack>>
       ELSE IF ~cur_line[t].alloc /\ allocFails
       THEN /\ LogOutcome(t, level, len, prefix, "nomem")
            /\ UNCHANGED <<logging, cur_line, logStack>>
       ELSE LET cat == av_strlcat(LineBefore(t), len)
            IN  IF ~prefix
                THEN \* the line is kept for the next call; logging = 0 again
                     /\ cur_line' = [cur_line EXCEPT ![t] = Line(cat)]
                     /\ logging' = [logging EXCEPT ![t] = 0]
                     /\ LogOutcome(t, level, len, prefix, "buffered")
                     /\ UNCHANGED logStack
                ELSE IF cat = 0
                THEN /\ cur_line' = [cur_line EXCEPT ![t] = Line(0)]
                     /\ logging' = [logging EXCEPT ![t] = 0]
                     /\ LogOutcome(t, level, len, prefix, "empty")
                     /\ UNCHANGED logStack
                ELSE IF PMS_Log_Quiet
                THEN \* cur_line[len - 1] = 0; PMS_Log returns; cur_line[0] = 0
                     /\ cur_line' = [cur_line EXCEPT ![t] = Line(0)]
                     /\ logging' = [logging EXCEPT ![t] = 0]
                     /\ LogOutcome(t, level, len, prefix, "quiet")
                     /\ UNCHANGED logStack
                ELSE \* cur_line[len - 1] = 0; PMS_Log issues its request
                     /\ cur_line' = [cur_line EXCEPT ![t] = Line(cat - 1)]
                     /\ logging' = [logging EXCEPT ![t] = 1]
                     /\ logStack' = [logStack EXCEPT ![t] = Append(@, "PMS_Log")]
                     /\ LogOutcome(t, level, len, prefix, "forwarded")
    /\ UNCHANGED <<av_log_level_plex, kvars, fvars, gvars, wvars, dvars, evars>>

LogMessage ==
    \E t \in Threads, level \in LogLevels, len \in LineLens, prefix \in BOOLEAN,
       allocFails \in BOOLEAN :
        plex_log_callback(t, level, len, prefix, allocFails)

\* the innermost PMS_Log of thread t returns and its plex_log_callback runs
\* to its end: cur_line[0] = 0; the guard is cleared
PMS_Log_return(t) ==
    /\ logStack[t] # <<>>
    /\ logStack' = [logStack EXCEPT ![t] = SubSeq(@, 1, Len(@) - 1)]
    /\ cur_line' = [cur_line EXCEPT ![t] = Line(0)]
    /\ logging' = [logging EXCEPT ![t] = 0]
    /\ UNCHANGED <<av_log_level_plex, lastLog, kvars, fvars, gvars, wvars, dvars, evars>>

LogReturn == \E t \in Threads : PMS_Log_return(t)

av_log_set_level_plex(level) ==
    /\ av_log_level_plex # level
    /\ av_log_level_plex' = level
    /\ UNCHANGED <<logging, cur_line, logStack, lastLog, kvars, fvars, gvars, wvars, dvars, evars>>

SetLevel == \E level \in LogLevels : av_log_set_level_plex(level)

LogSpecInit == LogIdle /\ KernelIdle /\ FilterIdle /\ GeomIdle /\ WeightIdle /\ DecIdle /\ EncIdle

LogNext == LogMessage \/ LogReturn \/ SetLevel

LogSpec == LogSpecInit /\ [][LogNext]_vars

\* C21: on every thread at most one PMS_Log call is in progress (an
\* invocation of plex_log_callback nested in PMS_Log never forwards), the
\* guard is clear whenever no PMS_Log call of the thread is in progress, and
\* so every outermost call at an enabled level that completes a line (and
\* has its line buffer) is forwarded, whatever calls came before it.
C21_OneLogRequestPerThread ==
    /\ \A t \in Threads :
        /\ Len(logStack[t]) <= 1
        /\ logging[t] = (IF logStack[t] = <<>> THEN 0 ELSE 1)
    /\ lastLog.nested => lastLog.outcome \in {"filtered", "guarded"}
    /\ (/\ lastLog.outcome \notin {"none", "nomem"}
        /\ ~lastLog.nested
        /\ lastLog.enabled
        /\ lastLog.complete)
       => lastLog.outcome = "forwarded"

\* a nested call of a thread was stopped by the guard, the outer call
\* finished, and a later message of that thread is being forwarded
C21_Witness ==
    /\ lastLog.after
    /\ ~lastLog.nested
    /\ lastLog.outcome = "forwarded"
    /\ Len(logStack[lastLog.thread]) = 1

(***************************************************************************)
(* libavcodec/mediacodecndkdec.c: one decoder instance, the AMediaCodec    *)
(* behind it, and the frames it has handed to its caller.  The codec is    *)
(* the environment: what it answers to a dequeue is an input of the        *)
(* action, except that it flags an output buffer end-of-stream only after  *)
(* an end-of-stream input buffer was queued.                               *)
(***************************************************************************)
MaxFrames == 3
EAGAIN == 11

DecRecord(op, pkt, queued, ret) ==
    [op |-> op, pkt |-> pkt, queued |-> queued, ret |-> ret, eosBefore |-> eosQueued]

\* the calls a handler makes on the AMediaCodec, noted when it is deleted
CodecCalls(names) == IF codec = "deleted" THEN afterDelete \cup names ELSE afterDelete

\* mediacodecndk_delete_decoder, the free callback of decoder_ref; also
\* the direct AMediaCodec_delete of mediacodecndk_decode_init
AMediaCodec_delete ==
    /\ codec' = "deleted"
    /\ nDeleted' = nDeleted + 1

\* mediacodecndk_decode_init.  fail: the call that fails ("none": returns 0)
mediacodecndk_decode_init(useBsf, fail) ==
    /\ dpc = "new"
    /\ fail = "bsf" => useBsf
    /\ IF fail \in {"binder", "bsf"}
       THEN /\ dpc' = "initfailed"
            /\ lastDec' = DecRecord("init", "none", "none", AVERROR_EXTERNAL)
            /\ UNCHANGED <<decoder, decoder_ref, bsfc, codec, refCount, nDeleted>>
       ELSE IF fail = "format"
       THEN \* AMediaFormat_new fails after the bitstream filter was set up
            /\ dpc' = "initfailed"
            /\ bsfc' = useBsf
            /\ lastDec' = DecRecord("init", "none", "none", AVERROR(ENOMEM))
            /\ UNCHANGED <<decoder, decoder_ref, codec, refCount, nDeleted>>
       ELSE IF fail = "create"
       THEN \* AMediaCodec_createDecoderByType returns NULL
            /\ dpc' = "initfailed"
            /\ bsfc' = useBsf
            /\ lastDec' = DecRecord("init", "none", "none", AVERROR_EXTERNAL)
            /\ UNCHANGED <<decoder, decoder_ref, codec, refCount, nDeleted>>
       ELSE IF fail = "ref"
       THEN \* av_buffer_create fails: the codec is deleted, ctx->decoder kept
            /\ dpc' = "initfailed"
            /\ bsfc' = useBsf
            /\ decoder' = "codec"
            /\ AMediaCodec_delete
            /\ lastDec' = DecRecord("init", "none", "none", AVERROR(ENOMEM))
            /\ UNCHANGED <<decoder_ref, refCount>>
       ELSE /\ dpc' = "open"
            /\ bsfc' = useBsf
            /\ decoder' = "codec"
            /\ decoder_ref' = TRUE
            /\ refCount' = 1
            /\ codec' = "started"
            /\ lastDec' = DecRecord("init", "none", "none", 0)
            /\ UNCHANGED nDeleted
    /\ UNCHANGED <<eos_reached, afterDelete, bufs, eosQueued>>
    /\ UNCHANGED <<kvars, fvars, gvars, wvars, lvars, evars>>

DecodeInit ==
    \E useBsf \in BOOLEAN, fail \in {"none", "binder", "bsf", "format", "create", "ref"} :
        mediacodecndk_decode_init(useBsf, fail)

\* mediacodecndk_queue_input_buffer: <<ret, what was queued>> ("failed":
\* nothing, the call returns an error)
mediacodecndk_queue_input_buffer(pkt, inFail) ==
    IF bsfc /\ pkt = "data" /\ inFail = "bsf" THEN <<AVERROR(ENOMEM), "failed">>
    ELSE IF inFail \in {"dequeue", "getbuf"} THEN <<AVERROR_EXTERNAL, "failed">>
    ELSE IF pkt = "null" THEN <<0, "eos">>
    ELSE <<0, "data">>

\* avpkt->size: a data packet of one byte, or the empty draining packet
PktSize(pkt) == IF pkt = "data" THEN 1 ELSE 0

\* the buffer that carried the end-of-stream flag when
\* mediacodecndk_dequeue_output_buffer has returned 0 (lines 213-215)
EosBufferAfterReturn(b) == [owner |-> "decoder", wrapped |-> FALSE, eos |-> TRUE, rel |-> 0]

\* mediacodecndk_dequeue_output_buffer: <<ret, bufs, refCount>>
\* out: what AMediaCodec_dequeueOutputBuffer finally answers
mediacodecndk_dequeue_output_buffer(out, idx, eosFlag, wrapFail) ==
    CASE out = "try_again" -> <<AVERROR(EAGAIN), bufs, refCount>>
      [] out \in {"format_unsupported", "error"} -> <<AVERROR_EXTERNAL, bufs, refCount>>
      [] OTHER ->
           IF eosFlag
           THEN <<0, [bufs EXCEPT ![idx] = EosBufferAfterReturn(@)], refCount>>
           ELSE IF wrapFail # "none"
           THEN \* fail: AMediaCodec_releaseOutputBuffer(ctx->decoder, out_index)
                <<AVERROR(ENOMEM),
                  [bufs EXCEPT ![idx] = [owner |-> "codec", wrapped |-> FALSE,
                                         eos |-> FALSE, rel |-> 1]],
                  refCount>>
           ELSE \* av_buffer_ref(ctx->decoder_ref) and av_buffer_create
                <<1,
                  [bufs EXCEPT ![idx] = [owner |-> "frame", wrapped |-> TRUE,
                                         eos |-> FALSE, rel |-> 0]],
                  refCount + 1>>

mediacodecndk_decode_frame(pkt, inFail, out, idx, eosFlag, wrapFail) ==
    /\ dpc = "open"
    /\ LET q == IF eos_reached = 0
                THEN mediacodecndk_queue_input_buffer(pkt, inFail)
                ELSE <<0, "none">>
           eosNow == eosQueued \/ q[2] = "eos"
       IN  /\ eos_reached' = (IF q[2] = "eos" THEN 1 ELSE eos_reached)
           /\ eosQueued' = eosNow
           /\ IF q[1] < 0
              THEN /\ lastDec' = DecRecord("decode", pkt, q[2], q[1])
                   /\ UNCHANGED <<bufs, refCount>>
              ELSE /\ out = "buffer" => /\ bufs[idx].owner = "codec"
                                        /\ eosFlag => eosNow
                                        /\ (~eosFlag /\ wrapFail = "none")
                                              => refCount <= MaxFrames
                   /\ LET r == mediacodecndk_dequeue_output_buffer(out, idx, eosFlag, wrapFail)
                      IN  /\ bufs' = r[2]
                          /\ refCount' = r[3]
                          /\ lastDec' = DecRecord("decode", pkt, q[2],
                                                  IF r[1] < 0 THEN r[1] ELSE PktSize(pkt))
    /\ UNCHANGED <<dpc, decoder, decoder_ref, bsfc, codec, nDeleted, afterDelete>>
    /\ UNCHANGED <<kvars, fvars, gvars, wvars, lvars, evars>>

DecodeFrame ==
    \E pkt \in {"data", "null"}, inFail \in {"none", "bsf", "dequeue", "getbuf"},
       out \in {"buffer", "try_again", "format_unsupported", "error"},
       idx \in OutIndices, eosFlag \in BOOLEAN,
       wrapFail \in {"none", "props", "ref", "create"} :
        mediacodecndk_decode_frame(pkt, inFail, out, idx, eosFlag, wrapFail)

\* mediacodecndk_decode_flush
mediacodecndk_decode_flush ==
    /\ dpc = "open"
    /\ eosQueued' = FALSE
    /\ lastDec' = DecRecord("flush", "none", "none", 0)
    /\ UNCHANGED <<dpc, decoder, decoder_ref, bsfc, eos_reached, codec, refCount,
                   nDeleted, afterDelete, bufs>>
    /\ UNCHANGED <<kvars, fvars, gvars, wvars, lvars, evars>>

\* mediacodecndk_free_buffer, when the last reference to the frame buffer
\* that wraps output buffer idx is dropped
mediacodecndk_free_buffer(idx) ==
    /\ dpc # "crashed"
    /\ bufs[idx].wrapped
    /\ afterDelete' = CodecCalls({"releaseOutputBuffer"})
    /\ bufs' = [bufs EXCEPT ![idx] = [owner |-> "codec", wrapped |-> FALSE,
                                      eos |-> FALSE, rel |-> @.rel + 1]]
    /\ UNCHANGED <<dpc, decoder, decoder_ref, bsfc, eos_reached, codec, refCount,
                   nDeleted, eosQueued, lastDec>>
    /\ UNCHANGED <<kvars, fvars, gvars, wvars, lvars, evars>>

FrameUnref == \E idx \in OutIndices : mediacodecndk_free_buffer(idx)

\* mediacodecndk_decode_close, also the host's cleanup after a failed init
\* (FF_CODEC_CAP_INIT_CLEANUP).  ub: what a call on a deleted codec does
mediacodecndk_decode_close(ub) ==
    /\ dpc \in {"open", "initfailed"}
    /\ ub = "crashes" => (decoder # "NULL" /\ codec = "deleted")
    /\ afterDelete' = (IF decoder # "NULL" THEN CodecCalls({"flush", "stop"})
                       ELSE afterDelete)
    /\ IF ub = "crashes"
       THEN /\ dpc' = "crashed"
            /\ UNCHANGED <<decoder_ref, bsfc, codec, refCount, nDeleted, eosQueued>>
       ELSE /\ dpc' = "closed"
            /\ eosQueued' = (IF decoder # "NULL" THEN FALSE ELSE eosQueued)
            /\ decoder_ref' = FALSE
            /\ bsfc' = FALSE
            /\ refCount' = (IF decoder_ref THEN refCount - 1 ELSE refCount)
            /\ IF decoder_ref /\ refCount = 1
               THEN AMediaCodec_delete
               ELSE /\ codec' = (IF decoder # "NULL" /\ codec # "deleted"
                                 THEN "stopped" ELSE codec)
                    /\ UNCHANGED nDeleted
    /\ lastDec' = DecRecord("close", "none", "none", 0)
    /\ UNCHANGED <<decoder, eos_reached, bufs>>
    /\ UNCHANGED <<kvars, fvars, gvars, wvars, lvars, evars>>

DecodeClose == \E ub \in {"survives", "crashes"} : mediacodecndk_decode_close(ub)

DecSpecInit == DecIdle /\ KernelIdle /\ FilterIdle /\ GeomIdle /\ WeightIdle /\ LogIdle /\ EncIdle

DecNext ==
    \/ DecodeInit
    \/ DecodeFrame
    \/ mediacodecndk_decode_flush
    \/ FrameUnref
    \/ DecodeClose

DecSpec == DecSpecInit /\ [][DecNext]_vars

\* a frame buffer wraps output buffer i and has references
Outstanding(i) == bufs[i].wrapped

\* C22: every output buffer the decoder has dequeued is either back at the
\* codec, released once since it was dequeued, or wrapped by a frame buffer
\* whose last unref releases it; this includes the buffer that carried the
\* end-of-stream flag.
C22_EveryBufferReleasedOnce ==
    \A i \in OutIndices :
        /\ bufs[i].owner = "codec" => bufs[i].rel <= 1
        /\ bufs[i].owner # "codec" => (Outstanding(i) /\ bufs[i].rel = 0)

\* C23: the AMediaCodec is deleted at most once, no codec call is made on
\* it after its deletion, and once the decoder is closed and every output
\* frame is released, a codec that mediacodecndk_decode_init created has
\* been deleted.
C23_DeletedOnceNoUseAfter ==
    /\ nDeleted <= 1
    /\ afterDelete = {}
    /\ (dpc = "closed" /\ decoder # "NULL" /\ \A i \in OutIndices : ~Outstanding(i))
          => nDeleted = 1

\* C24: while the decoder is open, eos_reached is set exactly when an
\* end-of-stream input buffer has been queued since the codec was started
\* or last flushed; a decode call made after end-of-stream queues nothing,
\* and one made before it with a data packet queues that packet unless the
\* input stage fails.
C24_EosFlagTracksCodec ==
    /\ dpc = "open" => ((eos_reached = 1) <=> eosQueued)
    /\ (lastDec.op = "decode" /\ lastDec.eosBefore) => lastDec.queued = "none"
    /\ (lastDec.op = "decode" /\ ~lastDec.eosBefore /\ lastDec.pkt = "data")
          => lastDec.queued \in {"data", "failed"}

(***************************************************************************)
(* libavcodec/mediacodecndkenc.c: mediacodecndk_encode_frame on an opened  *)
(* encoder.  The call is modelled in steps, its input stage (lines         *)
(* 136-157) and then one step per iteration of the output loop (lines      *)
(* 159-222), because a drain call stays in that loop while the codec       *)
(* answers "try again later".  The codec is the environment: it returns a  *)
(* packet only for a queued frame, reports its output format and returns   *)
(* its codec-config buffer once each, and returns an end-of-stream buffer  *)
(* only after an end-of-stream input buffer.                               *)
(***************************************************************************)
MaxEos == 2
MaxPending == 2

\* the call returns ret
EncReturn(ret) ==
    /\ epc' = "idle"
    /\ encRet' = ret

\* lines 136-157, up to the first test of the output loop
\* inAvail: AMediaCodec_dequeueInputBuffer returned an index >= 0
mediacodecndk_encode_frame(frame, inAvail, getBufFails) ==
    /\ epc = "idle"
    /\ (inAvail /\ frame = "NULL") => eosInputs < MaxEos
    /\ (inAvail /\ frame = "frame" /\ ~getBufFails) => pending < MaxPending
    /\ eframe' = frame
    /\ got_packet' = 0
    /\ lastPoll' = NoPoll
    /\ pollTick' = 0
    /\ IF inAvail /\ frame = "NULL"
       THEN \* AMediaCodec_queueInputBuffer(..., AMEDIACODEC_BUFFER_FLAG_END_OF_STREAM)
            /\ eosInputs' = eosInputs + 1
            /\ inputAfterEos' = (inputAfterEos \/ saw_output_eos)
            /\ queuedThis' = "eos"
            /\ UNCHANGED pending
       ELSE IF inAvail /\ ~getBufFails
       THEN \* av_image_copy_to_buffer; AMediaCodec_queueInputBuffer
            /\ pending' = pending + 1
            /\ inputAfterEos' = (inputAfterEos \/ saw_output_eos)
            /\ queuedThis' = "frame"
            /\ UNCHANGED eosInputs
       ELSE \* no input buffer, or AMediaCodec_getInputBuffer returned NULL
            /\ queuedThis' = "none"
            /\ UNCHANGED <<eosInputs, inputAfterEos, pending>>
    /\ IF inAvail /\ frame = "frame" /\ getBufFails
       THEN EncReturn(AVERROR_EXTERNAL)
       ELSE IF saw_output_eos
       THEN EncReturn(0)
       ELSE /\ epc' = "polling"
            /\ UNCHANGED encRet
    /\ UNCHANGED <<saw_output_eos, new_extradata, cfgSent, fmtSent>>
    /\ UNCHANGED <<kvars, fvars, gvars, wvars, lvars, dvars>>

EncodeCall ==
    \E frame \in {"frame", "NULL"}, inAvail \in BOOLEAN, getBufFails \in BOOLEAN :
        mediacodecndk_encode_frame(frame, inAvail, getBufFails)

Polled(status, released) ==
    /\ lastPoll' = [status |-> status, released |-> released]
    /\ pollTick' = 1 - pollTick

\* ret = ff_alloc_packet2(avctx, pkt, size, size) < 0   (line 195)
AllocPacketRet(allocRet) == IF allocRet < 0 THEN 1 ELSE 0

\* one iteration of while (!ctx->saw_output_eos) whose
\* AMediaCodec_dequeueOutputBuffer does not report end-of-stream
EncPollOther(status, allocRet, sideDataFails) ==
    /\ epc = "polling"
    /\ status \in {"try_again", "format_changed", "config", "packet", "buffers_changed"}
    /\ status = "config" => ~cfgSent
    /\ status = "format_changed" => ~fmtSent
    /\ fmtSent' = (fmtSent \/ status = "format_changed")
    /\ status = "packet" => pending > 0
    /\ CASE status = "try_again" ->
              /\ Polled(status, FALSE)
              /\ IF eframe # "NULL" THEN EncReturn(0) ELSE UNCHANGED <<epc, encRet>>
              /\ UNCHANGED <<new_extradata, pending, cfgSent, got_packet>>
         [] status = "format_changed" ->
              /\ Polled(status, FALSE)
              /\ UNCHANGED <<epc, encRet, new_extradata, pending, cfgSent, got_packet>>
         [] status = "config" ->
              \* av_mallocz for the new extradata fails when allocRet < 0
              /\ Polled(IF allocRet < 0 THEN "config_nomem" ELSE status, TRUE)
              /\ cfgSent' = TRUE
              /\ new_extradata' = (allocRet >= 0)
              /\ IF allocRet < 0 THEN EncReturn(AVERROR(ENOMEM))
                                 ELSE UNCHANGED <<epc, encRet>>
              /\ UNCHANGED <<pending, got_packet>>
         [] status = "packet" ->
              /\ pending' = pending - 1
              /\ UNCHANGED cfgSent
              /\ IF AllocPacketRet(allocRet) # 0
                 THEN /\ Polled("alloc_failed", TRUE)
                      /\ EncReturn(AllocPacketRet(allocRet))
                      /\ UNCHANGED <<new_extradata, got_packet>>
                 ELSE /\ got_packet' = 1
                      /\ IF new_extradata /\ sideDataFails
                         THEN /\ Polled("sidedata_failed", TRUE)
                              /\ EncReturn(AVERROR(ENOMEM))
                              /\ UNCHANGED new_extradata
                         ELSE /\ Polled(status, TRUE)
                              /\ new_extradata' = FALSE
                              /\ EncReturn(0)
         [] OTHER ->
              \* AMEDIACODEC_INFO_OUTPUT_BUFFERS_CHANGED falls into the buffer
              \* branch with outBuffer == NULL and bufferInfo not written:
              \* without the end-of-stream bit av_assert0(outBuffer) aborts
              /\ Polled(status, FALSE)
              /\ epc' = "aborted"
              /\ UNCHANGED <<encRet, new_extradata, pending, cfgSent, got_packet>>
    /\ UNCHANGED <<eframe, saw_output_eos, eosInputs, inputAfterEos, queuedThis>>
    /\ UNCHANGED <<kvars, fvars, gvars, wvars, lvars, dvars>>

EncPoll ==
    \E status \in {"try_again", "format_changed", "config", "packet", "buffers_changed"},
       allocRet \in {0, AVERROR(ENOMEM)}, sideDataFails \in BOOLEAN :
        EncPollOther(status, allocRet, sideDataFails)

\* the iteration in which the codec returns the end-of-stream buffer
\* (lines 171-176), or in which the unwritten bufferInfo.flags of an
\* AMEDIACODEC_INFO_OUTPUT_BUFFERS_CHANGED answer has that bit set
EncPollEos(status) ==
    /\ epc = "polling"
    /\ status = "eos" => eosInputs > 0
    /\ Polled(status, TRUE)
    /\ saw_output_eos' = TRUE
    /\ EncReturn(0)
    /\ UNCHANGED <<eframe, new_extradata, eosInputs, inputAfterEos, pending, cfgSent,
                   fmtSent, got_packet, queuedThis>>
    /\ UNCHANGED <<kvars, fvars, gvars, wvars, lvars, dvars>>

EncEos == \E status \in {"eos", "buffers_changed"} : EncPollEos(status)

\* the codec's answer the drain assumption is about
CodecReportsEos == EncPollEos("eos")

EncSpecInit == EncIdle /\ KernelIdle /\ FilterIdle /\ GeomIdle /\ WeightIdle /\ LogIdle /\ DecIdle

EncNext == EncodeCall \/ EncPoll \/ EncEos

EncSpec == EncSpecInit /\ [][EncNext]_vars

\* the calling thread keeps running its loop, and the codec reports
\* end-of-stream once an end-of-stream input buffer is queued
EncFairSpec ==
    EncSpecInit /\ [][EncNext]_vars /\ WF_vars(EncPoll) /\ WF_vars(CodecReportsEos)

\* the last call has returned and was given a frame
FrameCallDone == epc = "idle" /\ eframe = "frame"

\* C25: a call with a non-NULL frame that has returned without a negative
\* error code has queued the frame to the codec.
C25_FrameQueuedOrError ==
    (FrameCallDone /\ encRet >= 0) => queuedThis = "frame"

\* C26: every drain call (frame == NULL) returns, given that the thread
\* keeps polling and that the codec reports end-of-stream once an
\* end-of-stream input buffer is queued.
C26_DrainReturns ==
    (epc = "polling" /\ eframe = "NULL") ~> (epc # "polling")

\* C27: at most one end-of-stream input buffer is ever queued, and no input
\* buffer is queued once output end-of-stream has been seen.
C27_OneEosInput ==
    /\ eosInputs <= 1
    /\ ~inputAfterEos

\* C28: a call that ended because ff_alloc_packet2 failed has returned a
\* negative error code, left got_packet unset and released the output buffer.
C28_AllocFailureIsError ==
    (epc = "idle" /\ lastPoll.status = "alloc_failed")
        => (encRet < 0 /\ got_packet = 0 /\ lastPoll.released)

\* C29: every call of cudascale_config_props, cudascale_filter_frame and
\* cudascale_uninit, failing or not, pops the CUDA context it pushed, so
\* after any sequence of calls the context stack is as deep as before the
\* first one.
C29_ContextStackBalanced ==
    ctxDepth = 0

====
